---------------------------- MODULE Spec2Model ----------------------------
(***************************************************************************)
(* Derived physiological metrics of garmin-grafana: the calculators of     *)
(* custom_metrics.py / garmin-fetch.py / method_test.py over a Telemetry   *)
(* Source snapshot and the InfluxDB Metrics Store.                         *)
(*                                                                         *)
(* Numbers.  Python floats are modelled by exact rationals [n, d] (d > 0); *)
(* round(x, k) is round-half-even to an integer count of 10^-k units.      *)
(* Stored TRIMP values are hundredths (round(total, 2)), sleep scores,     *)
(* HRV and stress percentages are whole numbers.  A Python None is the     *)
(* empty sequence <<>>, a present value v is <<v>>.                        *)
(* Time stamps are seconds since day 0, 00:00:00 UTC.                      *)
(***************************************************************************)
EXTENDS Integers, Sequences, FiniteSets, TLC

VARIABLES
    day,            \* the date the last daily run or calculator call was for
    runs,           \* number of daily runs / calls made so far
    trainingLoad,   \* Metrics Store, measurement "TrainingLoad": set of points
    sleepSummary,   \* Metrics Store, measurement "SleepSummary": set of points
    dailyStats,     \* Metrics Store, measurement "DailyStats": set of points
    vo2Max,         \* Metrics Store, measurement "VO2Max": set of points
    metrics,        \* Metrics Store, the other measurements, by name
    stats,          \* Telemetry Source, get_stats(date): resting and max HR
    hrVals,         \* Telemetry Source, get_heart_rates(date)["heartRateValues"]
    acts,           \* Telemetry Source, get_activities_by_date(date) with tracks
    weighIns,       \* Telemetry Source, get_weigh_ins(date, date): weight in grams
    wellness,       \* Telemetry Source, sleep score, HRV and stress of the date
    today,          \* datetime.today() of the process, in seconds
    end_date,       \* fetch_write_bulk: the last date of iter_days(start, end)
    last_influxdb_sync_time_UTC,  \* polling loop; None when MANUAL_START_DATE
    last_watch_sync_time_UTC,     \* polling loop: lastUsedDeviceUploadTime read
    attempts,       \* the daily_fetch_write calls so far: date and outcome
    logins,         \* number of garmin_login() calls
    ret,            \* what the last call returned (or the exception it raised)
    pc              \* "run", or "crashed" after an uncaught exception

vars == <<day, runs, trainingLoad, sleepSummary, dailyStats, vo2Max, metrics,
          stats, hrVals, acts, weighIns, wellness, today, end_date,
          last_influxdb_sync_time_UTC, last_watch_sync_time_UTC, attempts,
          logins, ret, pc>>

storeVars == <<trainingLoad, sleepSummary, dailyStats, vo2Max, metrics>>

\* what the process reads from outside: the Telemetry Source and the clock
telemetryVars == <<stats, hrVals, acts, weighIns, wellness, today>>

\* the state of fetch_write_bulk and of the polling loop around it
loopVars == <<end_date, last_influxdb_sync_time_UTC, last_watch_sync_time_UTC,
             attempts, logins>>

-----------------------------------------------------------------------------
(* Optional values, rationals, rounding *)

None == <<>>

Some(v) == <<v>>

Rat(n, d) == [n |-> n, d |-> d]

RECURSIVE GCD(_, _)
GCD(a, b) == IF b = 0 THEN a ELSE GCD(b, a % b)

\* n/d in lowest terms (d > 0)
Norm(n, d) ==
    LET g == GCD(IF n < 0 THEN -n ELSE n, d)
    IN  Rat(n \div g, d \div g)

RatEq(a, b) == a.n * b.d = b.n * a.d

RatLt(a, b) == a.n * b.d < b.n * a.d

RatLe(a, b) == a.n * b.d <= b.n * a.d

RatMul(a, b) == Norm(a.n * b.n, a.d * b.d)

RatAdd(a, b) == Norm(a.n * b.d + b.n * a.d, a.d * b.d)

RatSub(a, b) == Norm(a.n * b.d - b.n * a.d, a.d * b.d)

\* a / b for b > 0 (the callers test b = 0 themselves, as Python raises there)
RatDiv(a, b) == Norm(a.n * b.d, a.d * b.n)

RatMin(a, b) == IF RatLe(a, b) THEN a ELSE b

\* Python round(): the nearest integer to n/d, a tie going to the even one
RoundHalfEven(n, d) ==
    LET q == n \div d
        r == n % d
    IN  IF 2 * r < d THEN q
        ELSE IF 2 * r > d THEN q + 1
        ELSE IF q % 2 = 0 THEN q ELSE q + 1

\* round(x, k) as a count of 10^-k units, scale = 10^k
Round(x, scale) == RoundHalfEven(x.n * scale, x.d)

RECURSIVE SeqSum(_)
SeqSum(s) == IF s = <<>> THEN 0 ELSE s[1] + SeqSum(Tail(s))

\* statistics.mean of a non-empty list
mean(s) == Rat(SeqSum(s), Len(s))

\* s[-k:] of Python
LastK(s, k) == IF Len(s) <= k THEN s ELSE SubSeq(s, Len(s) - k + 1, Len(s))

-----------------------------------------------------------------------------
(* Time *)

SecondsPerDay == 24 * 60 * 60

\* datetime.strptime(date_str, "%Y-%m-%d").replace(tzinfo=pytz.UTC)
Midnight(d) == d * SecondsPerDay

\* day + timedelta(hours=23, minutes=59, seconds=59)
EndOfDay(d) == Midnight(d) + 23 * 3600 + 59 * 60 + 59

DayOf(t) == t \div SecondsPerDay

-----------------------------------------------------------------------------
(* The Metrics Store: InfluxDB measurements as sets of points keyed by time *)
(* (the Device tag is the same for every point).                           *)

\* influxdbclient.write_points: upsert by time, fields of the new point
\* replace those of the stored one, the others are kept; a None field is
\* not written.
MergeFields(old, new) ==
    [f \in DOMAIN old |-> IF f # "time" /\ new[f] # None THEN new[f] ELSE old[f]]

WritePoint(measurement, p) ==
    IF \E q \in measurement : q.time = p.time
    THEN {IF q.time = p.time THEN MergeFields(q, p) ELSE q : q \in measurement}
    ELSE measurement \cup {p}

\* last("field") of the points of one day bucket inside [from, to]
LastOfDay(measurement, field, k, from, to) ==
    LET hits == {p \in measurement : /\ DayOf(p.time) = k
                                     /\ from <= p.time /\ p.time <= to
                                     /\ p[field] # None}
    IN  IF hits = {} THEN None
        ELSE (CHOOSE p \in hits : \A q \in hits : q.time <= p.time)[field]

\* SELECT last("field") ... WHERE time >= from AND time <= to GROUP BY time(1d),
\* then the caller's  [p[..] for p in ... if p.get(..) is not None]: the
\* last value of every day bucket that has one, oldest day first
RECURSIVE QueryDays(_, _, _, _, _)
QueryDays(measurement, field, days, from, to) ==
    IF days = {} THEN <<>>
    ELSE LET k == CHOOSE x \in days : \A y \in days : x <= y
         IN  LastOfDay(measurement, field, k, from, to)
                 \o QueryDays(measurement, field, days \ {k}, from, to)

QueryLastPerDay(measurement, field, from, to) ==
    QueryDays(measurement, field,
              {DayOf(p.time) : p \in {q \in measurement :
                                        /\ from <= q.time /\ q.time <= to
                                        /\ q[field] # None}},
              from, to)

-----------------------------------------------------------------------------
(* Bounds of the model and the inputs the Telemetry Source supplies *)

\* daily runs / calculator calls per behaviour
MaxRuns == 4

\* dates between two processed dates: consecutive days, or days the loop
\* skipped or never ran for (1 + 6 = 7, 21 + 6 = 27, 21 + 6 + 1 = 28)
Gaps == {1, 6, 21}

\* banisterTRIMP values get_training_load stores, in hundredths
TrimpValues == {0, 300}

\* what a call returned: the calculator, the exception it raised ("" for
\* none) and the points it returned
\* (logged: the values a calculator writes to its log before returning;
\*  value: the result of a calculator that returns a number, not points)
ReturnedLog(fn, points, logged) ==
    [fn |-> fn, raised |-> "", points |-> points, logged |-> logged,
     value |-> None]

Returned(fn, points) == ReturnedLog(fn, points, <<>>)

ReturnedValue(fn, v) ==
    [fn |-> fn, raised |-> "", points |-> <<>>, logged |-> <<>>, value |-> v]

Raised(fn, exc) ==
    [fn |-> fn, raised |-> exc, points |-> <<>>, logged |-> <<>>, value |-> None]

\* the measurements kept in "metrics", empty
EmptyMetrics ==
    [BodyComposition |-> {}, ActivityVO2Est |-> {}, TrainingReadiness |-> {},
     HRVTrend |-> {}, LactateThreshold |-> {}]

\* get_sleep_data / get_stats of a date: sleepScore, avgOvernightHrv,
\* stressPercentage (or None)
Wellness(slp, hrv, stress) == [slp |-> slp, hrv |-> hrv, stress |-> stress]

NoWellness == Wellness(None, None, None)

\* garmin_obj.get_stats(date_str): restingHeartRate, maxHeartRate (or None)
HrStats(rhr, maxhr) == [restingHeartRate |-> rhr, maxHeartRate |-> maxhr]

NoCall == Returned("", <<>>)

\* one calculator call or one daily run: no date range, one login
NoLoop ==
    /\ end_date = 0
    /\ last_influxdb_sync_time_UTC = <<>>
    /\ last_watch_sync_time_UTC = <<>>
    /\ attempts = <<>>
    /\ logins = 1

-----------------------------------------------------------------------------
(* ACWR: custom_metrics.get_acwr / garmin-fetch.get_acwr *)

AcuteDays == 7

ChronicDays == 28

TrainingLoadPoint(t, trimp, acwr) ==
    [time |-> t, banisterTRIMP |-> trimp, ACWR |-> acwr]

query_trimp(store, start_dt, end_dt) ==
    QueryLastPerDay(store, "banisterTRIMP", start_dt, end_dt)

get_acwr(store, d) ==
    LET end_ts  == Midnight(d)
        start7  == Midnight(d - (AcuteDays - 1))
        start28 == Midnight(d - (ChronicDays - 1))
        wk7     == query_trimp(store, start7, end_ts)
        wk28    == query_trimp(store, start28, end_ts)
    IN  IF Len(wk7) < 1 \/ Len(wk28) < 1 THEN Returned("get_acwr", <<>>)
        ELSE IF mean(wk28).n = 0 THEN Raised("get_acwr", "ZeroDivisionError")
        ELSE Returned("get_acwr",
                 << TrainingLoadPoint(Midnight(d), None,
                        Some(Round(RatDiv(mean(wk7), mean(wk28)), 100))) >>)

\* write_points_to_influxdb(points) for the TrainingLoad measurement
RECURSIVE write_points_to_influxdb(_, _)
write_points_to_influxdb(store, points) ==
    IF points = <<>> THEN store
    ELSE write_points_to_influxdb(WritePoint(store, points[1]), Tail(points))

\* The TrainingLoad lines of daily_fetch_write(d): the day's TRIMP point (none
\* when get_training_load returned []) is written, then get_acwr(d) runs and
\* its point is written.  An exception of get_acwr is caught by nothing in
\* fetch_write_bulk and ends the process.
AcwrDay(d, trimp) ==
    /\ pc = "run"
    /\ runs < MaxRuns
    /\ LET afterLoad == IF trimp = None THEN trainingLoad
                        ELSE write_points_to_influxdb(trainingLoad,
                                 << TrainingLoadPoint(Midnight(d), trimp, None) >>)
           r == get_acwr(afterLoad, d)
       IN  /\ ret' = r
           /\ trainingLoad' = write_points_to_influxdb(afterLoad, r.points)
           /\ pc' = IF r.raised = "" THEN "run" ELSE "crashed"
    /\ day' = d
    /\ runs' = runs + 1
    /\ UNCHANGED <<sleepSummary, dailyStats, vo2Max, metrics, telemetryVars, loopVars>>

InitStore ==
    /\ day = 0
    /\ runs = 0
    /\ trainingLoad = {}
    /\ sleepSummary = {}
    /\ dailyStats = {}
    /\ vo2Max = {}
    /\ metrics = EmptyMetrics
    /\ stats = HrStats(None, None)
    /\ hrVals = <<>>
    /\ acts = <<>>
    /\ weighIns = None
    /\ wellness = NoWellness
    /\ today = 0
    /\ NoLoop
    /\ ret = NoCall
    /\ pc = "run"

NextAcwr ==
    \E g \in Gaps : \E v \in TrimpValues :
        \/ AcwrDay(day + g, Some(v))
        \/ AcwrDay(day + g, None)

SpecAcwr == InitStore /\ [][NextAcwr]_vars

\* The banisterTRIMP values recorded on the calendar dates from..to
TrimpPointsOn(from, to) ==
    {p \in trainingLoad : DayOf(p.time) \in from..to /\ p.banisterTRIMP # None}

RECURSIVE TrimpTotal(_)
TrimpTotal(S) ==
    IF S = {} THEN 0
    ELSE LET p == CHOOSE q \in S : TRUE
         IN  p.banisterTRIMP[1] + TrimpTotal(S \ {p})

\* C1: get_acwr returns no point when the 7 days or the 28 days ending at the
\* date (inclusive) hold no TRIMP value, and otherwise exactly one point whose
\* ACWR is mean(7-day values) / mean(28-day values) (stored to 2 decimals).
C1_AcwrContract ==
    ret.fn = "get_acwr" =>
        LET w7  == TrimpPointsOn(day - 6, day)
            w28 == TrimpPointsOn(day - 27, day)
        IN  /\ ret.raised = ""
            /\ IF w7 = {} \/ w28 = {}
               THEN ret.points = <<>>
               ELSE /\ Len(ret.points) = 1
                    /\ TrimpTotal(w28) # 0
                    /\ ret.points[1].ACWR =
                         Some(RoundHalfEven(
                             100 * TrimpTotal(w7) * Cardinality(w28),
                             Cardinality(w7) * TrimpTotal(w28)))

-----------------------------------------------------------------------------
(* HRV baseline: custom_metrics.get_hrv_baseline / garmin-fetch.get_hrv_baseline *)

\* nights per behaviour of SpecHrv
MaxNights == 8

\* a night's run: <<days since the last run, avgOvernightHrv of the night>>
Nights == {<<1, None>>, <<1, Some(0)>>, <<1, Some(60)>>, <<21, Some(60)>>}

\* sleepEndTimestampGMT: the sleep of date d ends at 06:00:00 UTC of d
SleepEnd(d) == Midnight(d) + 6 * 3600

HrvWindowDays == 28

MinHrvNights == 7

BaselineNights == 7

TrendNights == 3

SleepSummaryPoint(t, slp, hrv) ==
    [time |-> t, sleepScore |-> slp, avgOvernightHrv |-> hrv]

\* garmin-fetch.get_sleep_data: the SleepSummary point, at the sleep's end
get_sleep_data(d, slp, hrv) == << SleepSummaryPoint(SleepEnd(d), slp, hrv) >>

HrvTrendPoint(t, baseline, trend, ratio) ==
    [time |-> t, baseline |-> baseline, trend |-> trend, ratio |-> ratio]

get_hrv_baseline(store, d) ==
    LET start28  == Midnight(d - (HrvWindowDays - 1))
        arr      == QueryLastPerDay(store, "avgOvernightHrv", start28, Midnight(d))
        baseline == mean(LastK(arr, BaselineNights))
        trend    == mean(LastK(arr, TrendNights))
    IN  IF Len(arr) < MinHrvNights THEN Returned("get_hrv_baseline", <<>>)
        \* ratio is None; the log line formats it with {ratio:.3f}
        ELSE IF baseline.n = 0 THEN Raised("get_hrv_baseline", "TypeError")
        ELSE Returned("get_hrv_baseline",
                 << HrvTrendPoint(Midnight(d), Round(baseline, 10), Round(trend, 10),
                        Some(Round(RatDiv(trend, baseline), 1000))) >>)

\* The SleepSummary lines of daily_fetch_write(d): the night's point is
\* written, then get_hrv_baseline(d) runs.
HrvDay(d, hrv) ==
    /\ pc = "run"
    /\ runs < MaxNights
    /\ LET afterSleep == write_points_to_influxdb(sleepSummary,
                             get_sleep_data(d, None, hrv))
           r == get_hrv_baseline(afterSleep, d)
       IN  /\ ret' = r
           /\ sleepSummary' = afterSleep
           /\ pc' = IF r.raised = "" THEN "run" ELSE "crashed"
    /\ day' = d
    /\ runs' = runs + 1
    /\ UNCHANGED <<trainingLoad, dailyStats, vo2Max, metrics, telemetryVars, loopVars>>

NextHrv == \E n \in Nights : HrvDay(day + n[1], n[2])

SpecHrv == InitStore /\ [][NextHrv]_vars

\* The nightly HRV values recorded on the calendar dates from..to, oldest first
RECURSIVE HrvOn(_, _)
HrvOn(from, to) ==
    IF from > to THEN <<>>
    ELSE LET S == {p \in sleepSummary :
                      DayOf(p.time) = from /\ p.avgOvernightHrv # None}
         IN  (IF S = {} THEN <<>> ELSE (CHOOSE p \in S : TRUE).avgOvernightHrv)
                 \o HrvOn(from + 1, to)

\* C2: get_hrv_baseline returns no point when fewer than 7 nightly HRV values
\* are present in the 28 days ending at the date, and otherwise exactly one
\* point with baseline = mean of the last 7 present values and trend = mean of
\* the last 3 (stored to 1 decimal).
C2_HrvBaselineContract ==
    ret.fn = "get_hrv_baseline" =>
        LET arr == HrvOn(day - 27, day)
        IN  /\ ret.raised = ""
            /\ IF Len(arr) < 7
               THEN ret.points = <<>>
               ELSE /\ Len(ret.points) = 1
                    /\ ret.points[1].baseline =
                         RoundHalfEven(10 * SeqSum(LastK(arr, 7)), 7)
                    /\ ret.points[1].trend =
                         RoundHalfEven(10 * SeqSum(LastK(arr, 3)), 3)

-----------------------------------------------------------------------------
(* Training Readiness: custom_metrics.get_training_readiness (the composite *)
(* scorer; garmin-fetch.py lines 948-1073 hold the same code)              *)

\* One date's telemetry as the daily run stores it: banisterTRIMP (hundredths),
\* sleepScore, avgOvernightHrv, stressPercentage; None for a value the
\* source does not have.
DayData(trimp, slp, hrv, stress) ==
    [trimp |-> trimp, slp |-> slp, hrv |-> hrv, stress |-> stress]

DayProfiles ==
    { DayData(None, None, None, None),
      DayData(Some(0), Some(100), Some(50), Some(0)),
      DayData(Some(300), Some(80), Some(25), Some(40)),
      DayData(Some(100), Some(55), None, Some(100)),
      DayData(Some(100), None, Some(45), Some(25)),
      DayData(None, Some(100), Some(70), Some(0)),
      DayData(Some(0), Some(120), Some(60), Some(0)) }

ReadinessGaps == {1, 7}

CtlDays == 42

AtlDays == 7

SleepHistDays == 3

StressHistDays == 3

MinStressDays == 3

HrvFullScore == 50

\* the six weights, in hundredths
AcuteWeight == 20

HrvWeight == 20

RecoveryWeight == 20

SleepWeight == 15

SleepHistWeight == 15

StressWeight == 10

One == Rat(1, 1)

Half == Rat(1, 2)

DailyStatsPoint(t, stress) == [time |-> t, stressPercentage |-> stress]

\* garmin-fetch.get_daily_stats: the DailyStats point, at wellnessStartTimeGmt
get_daily_stats(d, stress) == << DailyStatsPoint(Midnight(d), stress) >>

\* SELECT last("sleepScore") AS slp, last("avgOvernightHrv") AS hrv over one
\* range, no GROUP BY: no row when neither field has a value in the range,
\* else one row with a None for a field that has none
SleepRow(store, from, to) ==
    LET slp == LastOfDay(store, "sleepScore", DayOf(from), from, to)
        hrv == LastOfDay(store, "avgOvernightHrv", DayOf(from), from, to)
    IN  IF slp = None /\ hrv = None THEN <<>> ELSE << [slp |-> slp, hrv |-> hrv] >>

\* 1.0 - min(today_trimp / atl, 1.0) if atl > 0 else 1.0
AcuteScore(today_trimp, atl) ==
    IF atl.n > 0 THEN RatSub(One, RatMin(RatDiv(Rat(today_trimp, 1), atl), One))
    ELSE One

\* (mutant) the recovery score, "same as acute load", is left out of the sum
CombineWeights_NoRecovery(acute, hrv, recovery, sleep, sleepHist, stress) ==
    Round(RatAdd(RatAdd(RatAdd(RatMul(Rat(AcuteWeight, 100), acute),
                               RatMul(Rat(HrvWeight, 100), hrv)),
                        RatMul(Rat(SleepWeight, 100), sleep)),
                 RatAdd(RatMul(Rat(SleepHistWeight, 100), sleepHist),
                        RatMul(Rat(StressWeight, 100), stress))), 100)

\* the weighted sum of the six sub-scores, times 100, rounded
CombineWeights(acute, hrv, recovery, sleep, sleepHist, stress) ==
    Round(RatAdd(RatAdd(RatAdd(RatMul(Rat(AcuteWeight, 100), acute),
                               RatMul(Rat(HrvWeight, 100), hrv)),
                        RatAdd(RatMul(Rat(RecoveryWeight, 100), recovery),
                               RatMul(Rat(SleepWeight, 100), sleep))),
                 RatAdd(RatMul(Rat(SleepHistWeight, 100), sleepHist),
                        RatMul(Rat(StressWeight, 100), stress))), 100)

\* min(mean(sleeps) / 100, ...) is NOT what the code does: the history score
\* is mean(sleeps) / 100.0 unclamped, or the last-night score without history
SleepHistScore(sleeps, sleep_score) ==
    IF sleeps # <<>> THEN RatDiv(mean(sleeps), Rat(100, 1)) ELSE sleep_score

StressScore(stress_pcts) ==
    IF Len(stress_pcts) < MinStressDays THEN Half
    ELSE RatSub(One, RatMin(RatDiv(mean(stress_pcts), Rat(100, 1)), One))

TrainingReadinessPoint(t, readiness, ctl, atl, sleep_last, sleep_hist, hrv, pct) ==
    [time |-> t, readiness |-> readiness,
     CTL |-> Round(ctl, 10), ATL |-> Round(atl, 10),
     TSB |-> Round(RatSub(ctl, atl), 10),
     sleepScore |-> Round(sleep_last, 10),
     sleepHist |-> Round(RatMul(sleep_hist, Rat(100, 1)), 10),
     avgOvernightHrv |-> Round(hrv, 10), stressPct |-> Round(pct, 10)]

\* loads: TrainingLoad, sleep: SleepSummary, daily: DailyStats.  TRIMP values
\* are kept in hundredths throughout (the ratio today_trimp / atl and the
\* CTL/ATL fields are scaled back where they are used).
get_training_readiness(loads, sleep, daily, d) ==
    LET end_ts      == EndOfDay(d)
        loads42     == query_trimp(loads, Midnight(d - (CtlDays - 1)), end_ts)
        loads7      == query_trimp(loads, Midnight(d - (AtlDays - 1)), end_ts)
        today_trimp == IF loads7 # <<>> THEN loads7[Len(loads7)] ELSE 0
        ctl         == IF loads42 # <<>> THEN mean(loads42) ELSE Rat(0, 1)
        atl         == IF loads7 # <<>> THEN mean(loads7) ELSE Rat(0, 1)
        acute       == AcuteScore(today_trimp, atl)
        row         == SleepRow(sleep, Midnight(d), end_ts)
        sleep_last  == IF row = <<>> THEN Some(0) ELSE row[1].slp
        hrv         == IF row = <<>> \/ row[1].hrv = None THEN 0 ELSE row[1].hrv[1]
        sleeps      == QueryLastPerDay(sleep, "sleepScore",
                                       Midnight(d - (SleepHistDays - 1)), end_ts)
        stress_pcts == QueryLastPerDay(daily, "stressPercentage",
                                       Midnight(d - (StressHistDays - 1)), end_ts)
        avg_pct     == IF stress_pcts # <<>> THEN mean(stress_pcts) ELSE Rat(0, 1)
    IN  \* sleep_last / 100.0 with sleep_last None
        IF sleep_last = None THEN Raised("get_training_readiness", "TypeError")
        ELSE
        LET sleep_score == RatMin(Rat(sleep_last[1], 100), One)
            hrv_score   == RatMin(Rat(hrv, HrvFullScore), One)
            sleep_hist  == SleepHistScore(sleeps, sleep_score)
            stress      == StressScore(stress_pcts)
            scores      == [acute |-> acute, hrv |-> hrv_score, rec |-> acute,
                            sleepLN |-> sleep_score, sleep3N |-> sleep_hist,
                            stress |-> stress]
        IN  ReturnedLog("get_training_readiness",
                << TrainingReadinessPoint(Midnight(d),
                       CombineWeights(acute, hrv_score, acute, sleep_score,
                                      sleep_hist, stress),
                       Rat(ctl.n, ctl.d * 100), Rat(atl.n, atl.d * 100),
                       Rat(sleep_last[1], 1), sleep_hist, Rat(hrv, 1), avg_pct) >>,
                scores)

\* One date: the daily run stores the date's DailyStats, SleepSummary and
\* TrainingLoad points, then the composite scorer is called for the date.
ReadinessDay(d, data) ==
    /\ pc = "run"
    /\ runs < MaxRuns
    /\ LET daily == IF data.stress = None THEN dailyStats
                    ELSE write_points_to_influxdb(dailyStats,
                             get_daily_stats(d, data.stress))
           sleep == IF data.slp = None /\ data.hrv = None THEN sleepSummary
                    ELSE write_points_to_influxdb(sleepSummary,
                             get_sleep_data(d, data.slp, data.hrv))
           loads == IF data.trimp = None THEN trainingLoad
                    ELSE write_points_to_influxdb(trainingLoad,
                             << TrainingLoadPoint(Midnight(d), data.trimp, None) >>)
           r == get_training_readiness(loads, sleep, daily, d)
       IN  /\ ret' = r
           /\ dailyStats' = daily
           /\ sleepSummary' = sleep
           /\ trainingLoad' = loads
           /\ pc' = IF r.raised = "" THEN "run" ELSE "crashed"
    /\ day' = d
    /\ runs' = runs + 1
    /\ UNCHANGED <<vo2Max, metrics, telemetryVars, loopVars>>

NextReadiness ==
    \E g \in ReadinessGaps : \E data \in DayProfiles : ReadinessDay(day + g, data)

SpecReadiness == InitStore /\ [][NextReadiness]_vars

\* C3: the composite scorer returns exactly one TrainingReadiness point for
\* every store state (empty, partly filled, same-day sleep row with a null
\* sleepScore or avgOvernightHrv); it never raises, never returns [].
C3_ReadinessAlwaysOnePoint ==
    ret.fn = "get_training_readiness" =>
        /\ ret.raised = ""
        /\ Len(ret.points) = 1

\* C4: with non-negative TRIMP, HRV, sleep-score and stress values in the
\* store, the emitted readiness is an integer in [0, 100].
C4_ReadinessInRange ==
    (ret.fn = "get_training_readiness" /\ Len(ret.points) = 1) =>
        ret.points[1].readiness \in 0..100

AllScoresOne ==
    /\ ret.fn = "get_training_readiness"
    /\ ret.raised = ""
    /\ \A k \in DOMAIN ret.logged : RatEq(ret.logged[k], One)

\* C5: the six weights sum to 1.0, and when all six sub-scores are 1.0 the
\* emitted readiness is exactly 100.
C5_WeightsSumFullScore ==
    /\ AcuteWeight + HrvWeight + RecoveryWeight
         + SleepWeight + SleepHistWeight + StressWeight = 100
    /\ AllScoresOne => ret.points[1].readiness = 100

C5_Witness ==
    /\ AllScoresOne
    /\ DOMAIN ret.logged = {"acute", "hrv", "rec", "sleepLN", "sleep3N", "stress"}
    /\ Len(QueryLastPerDay(dailyStats, "stressPercentage",
                           Midnight(day - 2), EndOfDay(day))) = 3

-----------------------------------------------------------------------------
(* TRIMP: garmin-fetch.get_training_load and custom_metrics.get_training_load *)

\* samples per intraday HR series
MaxSamples == 3

\* get_stats answers: <<restingHeartRate, maxHeartRate>>
TrimpStats ==
    { HrStats(None, Some(100)), HrStats(Some(60), None),
      HrStats(Some(60), Some(55)), HrStats(Some(60), Some(100)) }

\* the first instant after the date, in ms: end_dt = day + timedelta(days=1)
DayMs == SecondsPerDay * 1000

\* heartRateValues entries are [timestamp_ms, bpm or None]
HrTimes == {0, 60000, DayMs}

HrBpm == {None, Some(40), Some(60), Some(100)}

HrSeries == UNION {[1..n -> HrTimes \X HrBpm] : n \in 0..MaxSamples}

\* math.exp(y) in thousandths, y in thousandths: the Taylor series, summed
\* until a term vanishes
RECURSIVE ExpSeries(_, _, _)
ExpSeries(y, term, k) ==
    IF term = 0 THEN 0
    ELSE term + ExpSeries(y, (term * y) \div (k * 1000), k + 1)

\* math.exp(1.92 * x)
ExpB(x) == ExpSeries(RoundHalfEven(1920 * x.n, x.d), 1000, 1)

\* (mutant) the x > 0 test is left out
PairTrimp_NoGuard(t0, hr0, t1, hr1, rhr, maxhr) ==
    LET dt_min == Norm(t1 - t0, 60000)
        x      == Norm(hr0 + hr1 - 2 * rhr, 2 * (maxhr - rhr))
    IN  RoundHalfEven(dt_min.n * x.n * ExpB(x) * 10, dt_min.d * x.d)

\* One pair of consecutive samples: dt_min * x * exp(1.92 * x) when x > 0,
\* in units of 0.0001; x = (hr_mid - rhr) / (maxhr - rhr), hr_mid the mean
\* of the two samples
PairTrimp(t0, hr0, t1, hr1, rhr, maxhr) ==
    LET dt_min == Norm(t1 - t0, 60000)
        x      == Norm(hr0 + hr1 - 2 * rhr, 2 * (maxhr - rhr))
    IN  IF x.n > 0
        THEN RoundHalfEven(dt_min.n * x.n * ExpB(x) * 10, dt_min.d * x.d)
        ELSE 0

\* for (t0, hr0), (t1, hr1) in zip(vals, vals[1:]), a pair with a None
\* skipped
RECURSIVE SumPairs(_, _, _)
SumPairs(vals, rhr, maxhr) ==
    IF Len(vals) < 2 THEN 0
    ELSE (IF vals[1][2] = None \/ vals[2][2] = None THEN 0
          ELSE PairTrimp(vals[1][1], vals[1][2][1], vals[2][1], vals[2][2][1],
                         rhr, maxhr))
         + SumPairs(Tail(vals), rhr, maxhr)

InvalidHr(st) ==
    \/ st.restingHeartRate = None
    \/ st.maxHeartRate = None
    \/ st.maxHeartRate[1] <= st.restingHeartRate[1]

\* garmin-fetch.get_training_load(date_str): [] or one TrainingLoad point
\* with banisterTRIMP = round(total_trimp, 2)
get_training_load(st, hr_vals, d) ==
    IF InvalidHr(st) THEN Returned("get_training_load", <<>>)
    ELSE IF Len(hr_vals) < 2 THEN Returned("get_training_load", <<>>)
    ELSE Returned("get_training_load",
             << TrainingLoadPoint(Midnight(d),
                    Some(RoundHalfEven(
                        SumPairs(hr_vals, st.restingHeartRate[1],
                                 st.maxHeartRate[1]), 100)),
                    None) >>)

\* custom_metrics.get_training_load(garmin_obj, date_str, start_dt, end_dt):
\* the total as a number (units of 0.0001), 0.0 for "no data"
get_training_load_slice(st, hr_vals, start_ms, end_ms) ==
    LET Usable(s) == s[2] # None /\ start_ms <= s[1] /\ s[1] < end_ms
        window    == SelectSeq(hr_vals, Usable)
    IN  IF InvalidHr(st) THEN ReturnedValue("get_training_load_slice", Some(0))
        ELSE IF Len(hr_vals) < 2
             THEN ReturnedValue("get_training_load_slice", Some(0))
        ELSE IF Len(window) < 2
             THEN ReturnedValue("get_training_load_slice", Some(0))
        ELSE ReturnedValue("get_training_load_slice",
                 Some(SumPairs(window, st.restingHeartRate[1],
                               st.maxHeartRate[1])))

\* daily_fetch_write: write_points_to_influxdb(get_training_load(date_str))
TrainingLoadDay ==
    /\ pc = "run"
    /\ LET r == get_training_load(stats, hrVals, day)
       IN  /\ ret' = r
           /\ trainingLoad' = write_points_to_influxdb(trainingLoad, r.points)
    /\ UNCHANGED <<day, runs, sleepSummary, dailyStats, vo2Max, metrics,
                   telemetryVars, loopVars, pc>>

\* get_readiness_inputs: get_training_load(garmin_obj, date_str, start_dt,
\* end_dt) with start_dt = the date's midnight, end_dt = the next midnight
TrainingLoadSlice ==
    /\ pc = "run"
    /\ ret' = get_training_load_slice(stats, hrVals, 0, DayMs)
    /\ UNCHANGED <<day, runs, storeVars, telemetryVars, loopVars, pc>>

InitTrimp ==
    /\ day = 0
    /\ runs = 0
    /\ trainingLoad = {}
    /\ sleepSummary = {}
    /\ dailyStats = {}
    /\ vo2Max = {}
    /\ metrics = EmptyMetrics
    /\ stats \in TrimpStats
    /\ hrVals \in HrSeries
    /\ acts = <<>>
    /\ weighIns = None
    /\ wellness = NoWellness
    /\ today = 0
    /\ NoLoop
    /\ ret = NoCall
    /\ pc = "run"

NextTrimp == TrainingLoadDay \/ TrainingLoadSlice

SpecTrimp == InitTrimp /\ [][NextTrimp]_vars

\* a TRIMP calculator was called with valid resting/max HR
ValidTrimpCall ==
    /\ ret.fn \in {"get_training_load", "get_training_load_slice"}
    /\ ~InvalidHr(stats)

\* the total the last TRIMP call computed, in hundredths: the stored
\* banisterTRIMP or the returned number; None when no point was returned
TrimpReturned ==
    IF ret.fn = "get_training_load"
    THEN (IF ret.points = <<>> THEN None ELSE ret.points[1].banisterTRIMP)
    ELSE Some(RoundHalfEven(ret.value[1], 100))

\* C6: with max_hr > resting_hr and a series of at least 2 samples none of
\* which exceeds resting HR, get_training_load computes a total of exactly 0.0.
C6_TrimpZeroAtRest ==
    ( /\ ValidTrimpCall
      /\ Len(hrVals) >= 2
      /\ \A i \in DOMAIN hrVals :
            hrVals[i][2] = None \/ hrVals[i][2][1] <= stats.restingHeartRate[1] )
    => /\ ret.raised = ""
       /\ TrimpReturned = Some(0)
       /\ ret.fn = "get_training_load_slice" => ret.value = Some(0)

C6_Witness ==
    /\ ValidTrimpCall
    /\ ret.fn = "get_training_load"
    /\ Len(hrVals) = 3
    /\ \A i \in DOMAIN hrVals : hrVals[i][2] # None
    /\ hrVals[1][2][1] < stats.restingHeartRate[1]
    /\ hrVals[2][2][1] = stats.restingHeartRate[1]
    /\ hrVals[1][1] < hrVals[2][1] /\ hrVals[2][1] < hrVals[3][1]
    /\ \E p \in trainingLoad : p.banisterTRIMP = Some(0)

\* the samples left after filtering: the entries with a bpm, and for the
\* slice calculator those inside [start_ms, end_ms)
UsableSamples ==
    {i \in DOMAIN hrVals :
        /\ hrVals[i][2] # None
        /\ ret.fn = "get_training_load_slice" => hrVals[i][1] < DayMs}

\* C7: the TRIMP calculator yields no point ([] in garmin-fetch, 0.0 in
\* custom_metrics) when resting or max HR is missing, max_hr <= resting_hr, or
\* fewer than 2 usable samples (non-null bpm, inside the window) remain.
C7_TrimpNoPoint ==
    ( /\ ret.fn \in {"get_training_load", "get_training_load_slice"}
      /\ InvalidHr(stats) \/ Cardinality(UsableSamples) < 2 )
    => /\ ret.raised = ""
       /\ ret.fn = "get_training_load" => ret.points = <<>>
       /\ ret.fn = "get_training_load_slice" => ret.value = Some(0)

-----------------------------------------------------------------------------
(* VO2max: the ratio (Uth) method and the segmented-regression method *)

\* activities per date
MaxActs == 2

\* if len(seg) >= 600
MinSegmentPoints == 600

\* One TCX Trackpoint run: n consecutive trackpoints with the same heart
\* rate (bpm) and speed (mm/s); None where the trackpoint lacks the element.
Block(n, hr, sp) == [n |-> n, hr |-> hr, sp |-> sp]

Tracks ==
    { <<>>,
      << Block(1, None, Some(3000)) >>,
      << Block(1, Some(50), Some(2000)) >>,
      << Block(MinSegmentPoints \div 2, Some(100), Some(4000)) >>,
      << Block(MinSegmentPoints \div 2, Some(90), Some(3000)) >>,
      << Block(MinSegmentPoints, Some(90), Some(3000)) >>,
      << Block(MinSegmentPoints, Some(90), Some(3000)),
         Block(MinSegmentPoints, Some(100), Some(4000)) >>,
      << Block(MinSegmentPoints, Some(90), Some(3000)),
         Block(1, Some(50), Some(2000)),
         Block(MinSegmentPoints, Some(100), Some(4000)) >> }

\* an activity summary with what download_activity(id, TCX) does for it
Activity(hasPolyline, download, track) ==
    [hasPolyline |-> hasPolyline, download |-> download, track |-> track]

Activities ==
    {Activity(FALSE, "ok", <<>>), Activity(TRUE, "fail", <<>>)}
    \cup {Activity(TRUE, "ok", t) : t \in Tracks}

Vo2Stats ==
    {HrStats(r, m) : r \in {None, Some(0), Some(40), Some(60)},
                     m \in {None, Some(0), Some(55), Some(100), Some(160)}}

\* truth value of an optional number: "if rhr", "not rhr"
Truthy(v) == v # None /\ v[1] # 0

\* (mutant) the Uth factor is left out
Uth_NoFactor(maxhr, rhr) == Norm(maxhr, rhr)

\* 15.3 * (maxhr / rhr)
Uth(maxhr, rhr) == RatMul(Rat(153, 10), Norm(maxhr, rhr))

VO2MaxPoint(t, estimatedVo2Max, estimate) ==
    [time |-> t, estimatedVo2Max |-> estimatedVo2Max, estimate |-> estimate]

\* method_test.calculate_vo2max_ratio(stats): a number or None
calculate_vo2max_ratio(st) ==
    IF /\ Truthy(st.restingHeartRate)
       /\ Truthy(st.maxHeartRate)
       /\ st.maxHeartRate[1] > st.restingHeartRate[1]
    THEN Some(Uth(st.maxHeartRate[1], st.restingHeartRate[1]))
    ELSE None

\* get_vo2max(date_str): [] or one VO2Max point, estimatedVo2Max = round(vo2, 2)
get_vo2max(st, d) ==
    IF \/ st.restingHeartRate = None
       \/ st.maxHeartRate = None
       \/ st.restingHeartRate[1] <= 0
    THEN Returned("get_vo2max", <<>>)
    ELSE Returned("get_vo2max",
             << VO2MaxPoint(Midnight(d),
                    Some(Round(Uth(st.maxHeartRate[1], st.restingHeartRate[1]),
                               100)),
                    None) >>)

\* the (t, hr, sp) tuples of one TCX: "if hr and sp and t"
ParseTrack(track) ==
    LET Complete(b) == b.hr # None /\ b.sp # None
    IN  SelectSeq(track, Complete)

\* track: the tuples of every polyline activity, in the order of the
\* activities; a download that fails is logged and skipped
RECURSIVE DownloadTracks(_)
DownloadTracks(al) ==
    IF al = <<>> THEN <<>>
    ELSE (IF al[1].hasPolyline /\ al[1].download = "ok"
          THEN ParseTrack(al[1].track) ELSE <<>>)
         \o DownloadTracks(Tail(al))

\* hr >= hr_thr with hr_thr = rhr + 0.7 * (maxhr - rhr)
Elevated(hr, rhr, maxhr) == 10 * hr >= 10 * rhr + 7 * (maxhr - rhr)

\* len(seg)
RECURSIVE PointCount(_)
PointCount(seg) ==
    IF seg = <<>> THEN 0 ELSE seg[1].n + PointCount(Tail(seg))

\* if len(seg) >= 600: segments.append(seg)
Flush(seg) == IF PointCount(seg) >= MinSegmentPoints THEN <<seg>> ELSE <<>>

\* the scan "for t, hr, sp in track" with the final flush
RECURSIVE SegmentTrack(_, _, _, _)
SegmentTrack(track, seg, rhr, maxhr) ==
    IF track = <<>> THEN Flush(seg)
    ELSE IF Elevated(track[1].hr[1], rhr, maxhr)
         THEN SegmentTrack(Tail(track), Append(seg, track[1]), rhr, maxhr)
         ELSE Flush(seg) \o SegmentTrack(Tail(track), <<>>, rhr, maxhr)

\* the points of all segments: the rows of X and Y
RECURSIVE Pool(_)
Pool(segments) ==
    IF segments = <<>> THEN <<>> ELSE segments[1] \o Pool(Tail(segments))

\* vo2_inst = 0.2 * (sp * 60) + 3.5, sp in mm/s
Vo2Inst(sp) == Norm(24 * sp + 7000, 2000)

RECURSIVE RatSum(_)
RatSum(s) == IF s = <<>> THEN Rat(0, 1) ELSE RatAdd(s[1], RatSum(Tail(s)))

\* xm, ym and the two sums of the least-squares fit of Y on X
Regression(pts) ==
    LET N     == Rat(PointCount(pts), 1)
        W(i)  == Rat(pts[i].n, 1)
        X(i)  == Rat(pts[i].hr[1], 1)
        Y(i)  == Vo2Inst(pts[i].sp[1])
        xm    == RatDiv(RatSum([i \in DOMAIN pts |-> RatMul(W(i), X(i))]), N)
        ym    == RatDiv(RatSum([i \in DOMAIN pts |-> RatMul(W(i), Y(i))]), N)
        dx(i) == RatSub(X(i), xm)
        dy(i) == RatSub(Y(i), ym)
    IN  [xm  |-> xm,
         ym  |-> ym,
         num |-> RatSum([i \in DOMAIN pts |->
                            RatMul(W(i), RatMul(dx(i), dy(i)))]),
         den |-> RatSum([i \in DOMAIN pts |->
                            RatMul(W(i), RatMul(dx(i), dx(i)))])]

\* slope * maxhr + intercept (den # 0)
Predict(reg, maxhr) ==
    LET slope     == RatDiv(reg.num, reg.den)
        intercept == RatSub(reg.ym, RatMul(slope, reg.xm))
    IN  RatAdd(RatMul(slope, Rat(maxhr, 1)), intercept)

\* "not rhr or not maxhr or maxhr <= rhr"
NoValidHr(st) ==
    \/ ~Truthy(st.restingHeartRate)
    \/ ~Truthy(st.maxHeartRate)
    \/ st.maxHeartRate[1] <= st.restingHeartRate[1]

\* get_vo2max_segmented(date_str): [] or one VO2Max point, estimate =
\* round(vo2max, 2); the regression divides by the sum of squares unguarded
get_vo2max_segmented(st, al, d) ==
    LET fn     == "get_vo2max_segmented"
        rhr    == st.restingHeartRate[1]
        maxhr  == st.maxHeartRate[1]
        track  == DownloadTracks(al)
        pts    == Pool(SegmentTrack(track, <<>>, rhr, maxhr))
        reg    == Regression(pts)
        Pt(v)  == VO2MaxPoint(Midnight(d), None, Some(Round(v, 100)))
    IN  IF NoValidHr(st) THEN Returned(fn, <<>>)
        ELSE IF \A i \in DOMAIN al : ~al[i].hasPolyline THEN Returned(fn, <<>>)
        ELSE IF track = <<>> THEN Returned(fn, << Pt(Uth(maxhr, rhr)) >>)
        ELSE IF pts = <<>> THEN Returned(fn, << Pt(Uth(maxhr, rhr)) >>)
        ELSE IF reg.den.n = 0 THEN Raised(fn, "ZeroDivisionError")
        ELSE Returned(fn, << Pt(Predict(reg, maxhr)) >>)

\* method_test.calculate_vo2max_segmented(garmin_obj, date_str): a number or
\* None; via tells which return statement produced it.  A failing download
\* is not caught here.
calculate_vo2max_segmented(st, al) ==
    LET rhr    == st.restingHeartRate[1]
        maxhr  == st.maxHeartRate[1]
        track  == DownloadTracks(al)
        pts    == Pool(SegmentTrack(track, <<>>, rhr, maxhr))
        reg    == Regression(pts)
        ratio  == [raised |-> "", value |-> calculate_vo2max_ratio(st),
                   via |-> "ratio"]
    IN  IF NoValidHr(st) THEN [raised |-> "", value |-> None, via |-> "none"]
        ELSE IF \E i \in DOMAIN al : al[i].hasPolyline /\ al[i].download = "fail"
             THEN [raised |-> "Exception", value |-> None, via |-> "none"]
        ELSE IF pts = <<>> THEN ratio
        ELSE IF reg.den.n = 0 THEN ratio
        ELSE [raised |-> "", value |-> Some(Predict(reg, maxhr)),
              via |-> "regression"]

\* method_test.fetch_vo2max(garmin_obj, date_str): round(., 2) of the
\* segmented estimate when it is truthy, else of the ratio estimate, else None
fetch_vo2max(st, al) ==
    LET vo2_seg   == calculate_vo2max_segmented(st, al)
        vo2_ratio == calculate_vo2max_ratio(st)
        IsTrue(v) == v # None /\ v[1].n # 0
    IN  IF vo2_seg.raised # "" THEN Raised("fetch_vo2max", vo2_seg.raised)
        ELSE IF IsTrue(vo2_seg.value)
             THEN ReturnedValue("fetch_vo2max",
                                Some(Round(vo2_seg.value[1], 100)))
        ELSE IF IsTrue(vo2_ratio)
             THEN ReturnedValue("fetch_vo2max", Some(Round(vo2_ratio[1], 100)))
        ELSE ReturnedValue("fetch_vo2max", None)

\* daily_fetch_write: write_points_to_influxdb(get_vo2max(date_str))
Vo2MaxDay ==
    /\ pc = "run"
    /\ LET r == get_vo2max(stats, day)
       IN  /\ ret' = r
           /\ vo2Max' = write_points_to_influxdb(vo2Max, r.points)
    /\ UNCHANGED <<day, runs, trainingLoad, sleepSummary, dailyStats, metrics,
                   telemetryVars, loopVars, pc>>

\* daily_fetch_write: write_points_to_influxdb(get_vo2max_segmented(date_str));
\* an exception of the calculator ends the run
Vo2MaxSegmentedDay ==
    /\ pc = "run"
    /\ LET r == get_vo2max_segmented(stats, acts, day)
       IN  /\ ret' = r
           /\ vo2Max' = write_points_to_influxdb(vo2Max, r.points)
           /\ pc' = IF r.raised = "" THEN "run" ELSE "crashed"
    /\ UNCHANGED <<day, runs, trainingLoad, sleepSummary, dailyStats, metrics,
                   telemetryVars, loopVars>>

\* calculate_vo2max_ratio(garmin_obj.get_stats(date))
CalculateVo2MaxRatio ==
    /\ pc = "run"
    /\ ret' = ReturnedValue("calculate_vo2max_ratio",
                            calculate_vo2max_ratio(stats))
    /\ UNCHANGED <<day, runs, storeVars, telemetryVars, loopVars, pc>>

\* method_test main: vo2 = fetch_vo2max(garmin, args.date)
FetchVo2Max ==
    /\ pc = "run"
    /\ LET r == fetch_vo2max(stats, acts)
       IN  /\ ret' = r
           /\ pc' = IF r.raised = "" THEN "run" ELSE "crashed"
    /\ UNCHANGED <<day, runs, storeVars, telemetryVars, loopVars>>

InitVo2 ==
    /\ day = 0
    /\ runs = 0
    /\ trainingLoad = {}
    /\ sleepSummary = {}
    /\ dailyStats = {}
    /\ vo2Max = {}
    /\ metrics = EmptyMetrics
    /\ stats \in Vo2Stats
    /\ hrVals = <<>>
    /\ acts \in UNION {[1..n -> Activities] : n \in 0..MaxActs}
    /\ weighIns = None
    /\ wellness = NoWellness
    /\ today = 0
    /\ NoLoop
    /\ ret = NoCall
    /\ pc = "run"

NextVo2 ==
    \/ Vo2MaxDay
    \/ Vo2MaxSegmentedDay
    \/ CalculateVo2MaxRatio
    \/ FetchVo2Max

SpecVo2 == InitVo2 /\ [][NextVo2]_vars

\* max_hr > resting_hr > 0, both present
ValidRatioStats ==
    /\ stats.restingHeartRate # None
    /\ stats.maxHeartRate # None
    /\ stats.restingHeartRate[1] > 0
    /\ stats.maxHeartRate[1] > stats.restingHeartRate[1]

\* 15.3 * max_hr / resting_hr as a fraction in lowest terms
RatioExact == Norm(153 * stats.maxHeartRate[1], 10 * stats.restingHeartRate[1])

\* fetch_vo2max returned, and its segmented estimator produced no regression
FetchFellBack ==
    /\ ret.fn = "fetch_vo2max"
    /\ ret.raised = ""
    /\ calculate_vo2max_segmented(stats, acts).via # "regression"

\* C8 (as stated): for max_hr > resting_hr > 0 the ratio-method VO2max is
\* 15.3 * max_hr / resting_hr, from calculate_vo2max_ratio, from get_vo2max and
\* from fetch_vo2max when it falls back to the ratio.
C8_RatioExact ==
    ValidRatioStats =>
       /\ ret.fn = "calculate_vo2max_ratio" => ret.value = Some(RatioExact)
       /\ ret.fn = "get_vo2max" =>
             /\ Len(ret.points) = 1
             /\ ret.points[1].estimatedVo2Max # None
             /\ RatEq(Rat(ret.points[1].estimatedVo2Max[1], 100), RatioExact)
       /\ FetchFellBack =>
             /\ ret.value # None
             /\ RatEq(Rat(ret.value[1], 100), RatioExact)

\* C8 (amended): for max_hr > resting_hr > 0, calculate_vo2max_ratio returns
\* 15.3 * max_hr / resting_hr; get_vo2max and the falling-back fetch_vo2max
\* give that value rounded to 2 decimals.
C8_RatioRounded ==
    ValidRatioStats =>
       /\ ret.fn = "calculate_vo2max_ratio" => ret.value = Some(RatioExact)
       /\ ret.fn = "get_vo2max" =>
             /\ Len(ret.points) = 1
             /\ ret.points[1].estimatedVo2Max = Some(Round(RatioExact, 100))
             /\ \E p \in vo2Max :
                   p.estimatedVo2Max = Some(Round(RatioExact, 100))
       /\ FetchFellBack => ret.value = Some(Round(RatioExact, 100))

C8_Witness ==
    /\ stats = HrStats(Some(40), Some(160))
    /\ FetchFellBack
    /\ \E i \in DOMAIN acts : acts[i].hasPolyline /\ acts[i].track # <<>>
    /\ ret.value = Some(6120)

\* C9: the ratio estimator gives no estimate (None from calculate_vo2max_ratio,
\* [] from get_vo2max) when resting or max HR is missing or zero, or max HR is
\* not strictly greater than resting HR.
C9_RatioNoEstimate ==
    ( \/ ~Truthy(stats.restingHeartRate)
      \/ ~Truthy(stats.maxHeartRate)
      \/ stats.maxHeartRate[1] <= stats.restingHeartRate[1] )
    => /\ ret.fn = "calculate_vo2max_ratio" => ret.value = None
       /\ ret.fn = "get_vo2max" => ret.points = <<>>

\* no track point with heart rate and speed exists for the date
NoTrackPoints ==
    \A i \in DOMAIN acts :
        acts[i].hasPolyline => ParseTrack(acts[i].track) = <<>>

\* C10: with max_hr > resting_hr > 0 and no track points for the date (no
\* track-bearing activity at all, or no usable point in any track),
\* get_vo2max_segmented emits exactly one point with the ratio-method value.
C10_SegmentedFallback ==
    (ValidRatioStats /\ ret.fn = "get_vo2max_segmented" /\ NoTrackPoints)
    => /\ ret.raised = ""
       /\ Len(ret.points) = 1
       /\ ret.points[1].estimate = Some(Round(RatioExact, 100))

\* the points of the qualifying segments of the date's pooled track
PooledPoints ==
    Pool(SegmentTrack(DownloadTracks(acts), <<>>,
                      stats.restingHeartRate[1], stats.maxHeartRate[1]))

\* no qualifying point, or all qualifying points share one HR value
DegenerateRegression ==
    \A i, j \in DOMAIN PooledPoints : PooledPoints[i].hr = PooledPoints[j].hr

\* C11: with valid resting/max HR and track points to scan, when the pooled
\* qualifying-segment points have zero variance in HR or there are none, the
\* segmented estimator (get_vo2max_segmented, and calculate_vo2max_segmented
\* behind fetch_vo2max) gives the ratio-method value and does not raise.
C11_DegenerateFallsBack ==
    ( /\ ValidRatioStats
      /\ ret.fn \in {"get_vo2max_segmented", "fetch_vo2max"}
      /\ \A i \in DOMAIN acts : acts[i].download = "ok"
      /\ DownloadTracks(acts) # <<>>
      /\ DegenerateRegression )
    => /\ ret.raised = ""
       /\ ret.fn = "get_vo2max_segmented" =>
             /\ Len(ret.points) = 1
             /\ ret.points[1].estimate = Some(Round(RatioExact, 100))
       /\ ret.fn = "fetch_vo2max" => ret.value = Some(Round(RatioExact, 100))

-----------------------------------------------------------------------------
(* Load aggregation: custom_metrics.compute_ctl_atl *)

\* (mutant) ATL is taken over the CTL window
compute_ctl_atl_OneWindow(loads, d) ==
    LET trimp_42 == query_trimp(loads, Midnight(d - (CtlDays - 1)), EndOfDay(d))
        ctl      == IF trimp_42 # <<>> THEN mean(trimp_42) ELSE Rat(0, 1)
    IN  [atl |-> ctl, ctl |-> ctl]

\* compute_ctl_atl(date_str, influxdbclient, device): the tuple (atl, ctl),
\* in hundredths as the stored TRIMP values
compute_ctl_atl(loads, d) ==
    LET end_ts   == EndOfDay(d)
        trimp_7  == query_trimp(loads, Midnight(d - (AtlDays - 1)), end_ts)
        trimp_42 == query_trimp(loads, Midnight(d - (CtlDays - 1)), end_ts)
    IN  [atl |-> IF trimp_7 # <<>> THEN mean(trimp_7) ELSE Rat(0, 1),
         ctl |-> IF trimp_42 # <<>> THEN mean(trimp_42) ELSE Rat(0, 1)]

\* compute_ctl_atl called for the date of the last daily run
ComputeCtlAtl ==
    /\ pc = "run"
    /\ ret' = ReturnedValue("compute_ctl_atl",
                            Some(compute_ctl_atl(trainingLoad, day)))
    /\ UNCHANGED <<day, runs, storeVars, telemetryVars, loopVars, pc>>

NextLoad == NextReadiness \/ ComputeCtlAtl

SpecLoad == InitStore /\ [][NextLoad]_vars

\* mean of the TRIMP values present on the calendar dates from..to, in
\* hundredths; 0 when there is none
TrimpMeanOn(from, to) ==
    LET S == TrimpPointsOn(from, to)
    IN  IF S = {} THEN Rat(0, 1) ELSE Rat(TrimpTotal(S), Cardinality(S))

\* the same-day SleepSummary row has avgOvernightHrv but no sleepScore
NullSleepScoreRow ==
    /\ \E p \in sleepSummary : DayOf(p.time) = day /\ p.avgOvernightHrv # None
    /\ \A p \in sleepSummary : DayOf(p.time) = day => p.sleepScore = None

-----------------------------------------------------------------------------
(* Further contracts of the HRV baseline and of ACWR *)

\* C13: with at least 7 nightly HRV values present and a baseline (mean of
\* the last 7) of 0, get_hrv_baseline returns one point with a null ratio and
\* baseline and trend set (0.0 here); it does not raise.  The values counted
\* are those of the nights before the date, the date's own night being 0 too.
C13_ZeroBaselineNullRatio ==
    ( /\ ret.fn = "get_hrv_baseline"
      /\ Len(HrvOn(day - 27, day - 1)) >= 7
      /\ SeqSum(LastK(HrvOn(day - 27, day - 1), 7)) = 0
      /\ SeqSum(LastK(HrvOn(day - 27, day), 7)) = 0 )
    => /\ ret.raised = ""
       /\ Len(ret.points) = 1
       /\ ret.points[1].ratio = None
       /\ ret.points[1].baseline = 0
       /\ ret.points[1].trend = 0

-----------------------------------------------------------------------------
(* Per-activity VO2: get_body_composition and get_activity_vo2 *)

\* activities per date in SpecActivity
MaxWorkouts == 2

\* allWeightMetrics of the date's first weight summary: the weight (grams)
\* of each metric, None for a metric without one; <<>> for no weigh-in
WeighIns == { <<>>, << None >>, << Some(70000) >>, << None, Some(90000) >> }

\* an activity summary: typeKey, whether startTimeGMT is there, averageSpeed
\* and maxSpeed (m/s), avgPower and maxPower (W); the id and the start time
\* are given by its place in the date's list
Workout(typeKey, started, avg_sp, max_sp, avg_pw, max_pw) ==
    [typeKey |-> typeKey, started |-> started,
     averageSpeed |-> avg_sp, maxSpeed |-> max_sp,
     avgPower |-> avg_pw, maxPower |-> max_pw]

Workouts ==
    { Workout("running", TRUE, Some(3), Some(5), None, None),
      Workout("running", FALSE, Some(3), Some(5), None, None),
      Workout("cycling", TRUE, Some(7), Some(12), Some(35), Some(70)),
      Workout("virtual_ride", TRUE, None, None, Some(70), None),
      Workout("walking", TRUE, Some(1), Some(2), None, None) }

\* get_activities_by_date(d, d): the workouts with activityId and startTimeGMT
ActivitiesOn(d, ws) ==
    [i \in DOMAIN ws |->
        [activityId   |-> 10 * d + i,
         typeKey      |-> ws[i].typeKey,
         startTimeGMT |-> IF ws[i].started
                          THEN Some(Midnight(d) + (7 + i) * 3600) ELSE None,
         averageSpeed |-> ws[i].averageSpeed,
         maxSpeed     |-> ws[i].maxSpeed,
         avgPower     |-> ws[i].avgPower,
         maxPower     |-> ws[i].maxPower]]

BodyCompositionPoint(t, weight) == [time |-> t, weight |-> weight]

\* get_body_composition(date_str): one point per weight metric that has a
\* value, at the metric's timestamp (here: after 12:00, in list order)
get_body_composition(d, wdata) ==
    LET Pt(i)     == BodyCompositionPoint(Midnight(d) + 12 * 3600 + i, wdata[i])
        HasValue(p) == p.weight # None
    IN  Returned("get_body_composition",
                 SelectSeq([i \in DOMAIN wdata |-> Pt(i)], HasValue))

\* the first metric with a weight
RECURSIVE FirstWeight(_)
FirstWeight(wdata) ==
    IF wdata = <<>> THEN None
    ELSE IF wdata[1] # None THEN wdata[1]
    ELSE FirstWeight(Tail(wdata))

\* (mutant) the last stored weight of any time, later dates included
LastWeight_AnyTime(store, day_end) ==
    LET hits == {p \in store : p.weight # None}
    IN  IF hits = {} THEN None
        ELSE (CHOOSE p \in hits : \A q \in hits : q.time <= p.time).weight

\* SELECT last("weight") FROM "BodyComposition" WHERE time <= day_end
LastWeight(store, day_end) ==
    LET hits == {p \in store : p.weight # None /\ p.time <= day_end}
    IN  IF hits = {} THEN None
        ELSE (CHOOSE p \in hits : \A q \in hits : q.time <= p.time).weight

\* step 1 and 1b of get_activity_vo2: the weight, a rational number of grams
ResolveWeight(wdata, store, d) ==
    LET same_day == FirstWeight(wdata)
        stored   == LastWeight(store, EndOfDay(d))
    IN  IF same_day # None THEN Some(Rat(same_day[1], 1))
        ELSE IF stored # None THEN Some(Rat(stored[1], 1))
        ELSE None

ActivityVO2Point(t, id, typ, run_avg, run_peak, cyc_avg, cyc_peak) ==
    [time |-> t, ActivityID |-> id, ActivityType |-> typ,
     vo2_run_avg |-> run_avg, vo2_run_peak |-> run_peak,
     vo2_cyc_avg |-> cyc_avg, vo2_cyc_peak |-> cyc_peak]

Vo2Types ==
    {"running", "cycling", "cycling_road", "cycling_mountain",
     "cycling_indoor", "indoor_cycling", "virtual_ride"}

\* typ.startswith("cycling") or "virtual_ride" or "indoor_cycling"
CyclingTypes ==
    {"cycling", "cycling_road", "cycling_mountain", "cycling_indoor",
     "indoor_cycling", "virtual_ride"}

\* round(vo2_run(s), 2) if s else absent
Vo2Run(sp) ==
    IF Truthy(sp) THEN Some(Round(Rat(24 * sp[1] + 7, 2), 100)) ELSE None

\* round(vo2_cyc(watts), 2) if watts else absent:
\* (1.8 * (watts * 6.12) / weight) + 7 with weight in kg
Vo2Cyc(watts, weight_kg) ==
    IF Truthy(watts)
    THEN Some(Round(RatAdd(RatDiv(RatMul(Rat(9, 5),
                                         RatMul(Rat(watts[1], 1), Rat(153, 25))),
                                  weight_kg),
                           Rat(7, 1)), 100))
    ELSE None

\* the loop "for act in acts"; weight is the loop's variable of that name,
\* divided by 1000 each time a cycling activity is evaluated
RECURSIVE ActivityVo2Loop(_, _)
ActivityVo2Loop(al, weight) ==
    IF al = <<>> THEN <<>>
    ELSE
    LET act   == al[1]
        typ   == act.typeKey
        cyc   == typ \in CyclingTypes /\ weight # None /\ weight[1].n # 0
        kg    == RatDiv(weight[1], Rat(1000, 1))
        run_a == IF typ = "running" THEN Vo2Run(act.averageSpeed) ELSE None
        run_p == IF typ = "running" THEN Vo2Run(act.maxSpeed) ELSE None
        cyc_a == IF cyc THEN Vo2Cyc(act.avgPower, kg) ELSE None
        cyc_p == IF cyc THEN Vo2Cyc(act.maxPower, kg) ELSE None
        pt    == ActivityVO2Point(act.startTimeGMT[1], act.activityId, typ,
                                  run_a, run_p, cyc_a, cyc_p)
        some  == run_a # None \/ run_p # None \/ cyc_a # None \/ cyc_p # None
    IN  IF typ \notin Vo2Types \/ act.startTimeGMT = None
        THEN ActivityVo2Loop(Tail(al), weight)
        ELSE (IF some THEN << pt >> ELSE <<>>)
             \o ActivityVo2Loop(Tail(al), IF cyc THEN Some(kg) ELSE weight)

\* get_activity_vo2(date_str): the ActivityVO2Est points of the date
get_activity_vo2(wdata, store, al, d) ==
    Returned("get_activity_vo2",
             ActivityVo2Loop(al, ResolveWeight(wdata, store, d)))

\* write_points of ActivityVO2Est points: the tags ActivityID and ActivityType
\* and the time identify a point
RECURSIVE WriteActivityPoints(_, _)
WriteActivityPoints(store, points) ==
    IF points = <<>> THEN store
    ELSE LET p    == points[1]
             Same(q) == /\ q.time = p.time
                        /\ q.ActivityID = p.ActivityID
                        /\ q.ActivityType = p.ActivityType
             Fields  == {"vo2_run_avg", "vo2_run_peak",
                         "vo2_cyc_avg", "vo2_cyc_peak"}
             Merge(q) == [f \in DOMAIN q |->
                            IF f \in Fields /\ p[f] # None THEN p[f] ELSE q[f]]
             next == IF \E q \in store : Same(q)
                     THEN {IF Same(q) THEN Merge(q) ELSE q : q \in store}
                     ELSE store \cup {p}
         IN  WriteActivityPoints(next, Tail(points))

\* weigh-ins of other dates, as earlier daily runs stored them:
\* <<date, allWeightMetrics>> in the order of the runs
WeightHistories ==
    { <<>>,
      << <<0, << Some(90000) >> >> >>,
      << <<0, << Some(90000) >> >>, <<1, << Some(70000) >> >> >>,
      << <<3, << Some(90000) >> >> >> }

RECURSIVE BodyCompositionAfter(_)
BodyCompositionAfter(history) ==
    IF history = <<>> THEN {}
    ELSE write_points_to_influxdb(
             BodyCompositionAfter(SubSeq(history, 1, Len(history) - 1)),
             get_body_composition(history[Len(history)][1],
                                  history[Len(history)][2]).points)

\* daily_fetch_write(d), the lines
\*   write_points_to_influxdb(get_body_composition(date_str))
\*   write_points_to_influxdb(get_activity_vo2(date_str))
ActivityDay ==
    /\ pc = "run"
    /\ LET body == write_points_to_influxdb(metrics.BodyComposition,
                       get_body_composition(day, weighIns).points)
           r    == get_activity_vo2(weighIns, body, acts, day)
       IN  /\ ret' = r
           /\ metrics' = [metrics EXCEPT
                            !.BodyComposition = body,
                            !.ActivityVO2Est =
                                WriteActivityPoints(@, r.points)]
    /\ UNCHANGED <<day, runs, trainingLoad, sleepSummary, dailyStats, vo2Max,
                   telemetryVars, loopVars, pc>>

\* the date is day 2; the store holds the weigh-ins of other dates
InitActivity ==
    /\ day = 2
    /\ runs = 0
    /\ trainingLoad = {}
    /\ sleepSummary = {}
    /\ dailyStats = {}
    /\ vo2Max = {}
    /\ \E h \in WeightHistories :
          metrics = [EmptyMetrics EXCEPT !.BodyComposition = BodyCompositionAfter(h)]
    /\ stats = HrStats(None, None)
    /\ hrVals = <<>>
    /\ \E ws \in UNION {[1..n -> Workouts] : n \in 0..MaxWorkouts} :
          acts = ActivitiesOn(day, ws)
    /\ weighIns \in WeighIns
    /\ wellness = NoWellness
    /\ today = 0
    /\ NoLoop
    /\ ret = NoCall
    /\ pc = "run"

NextActivity == ActivityDay

SpecActivity == InitActivity /\ [][NextActivity]_vars

\* the weight (grams) the date's cycling estimates are to use: the same-day
\* weigh-in, else the most recent stored weight of a date up to the date
WeightFor ==
    LET same   == {i \in DOMAIN weighIns : weighIns[i] # None}
        stored == {p \in metrics.BodyComposition :
                      p.weight # None /\ DayOf(p.time) <= day}
    IN  IF same # {}
        THEN weighIns[CHOOSE i \in same : \A j \in same : i <= j]
        ELSE IF stored # {}
        THEN (CHOOSE p \in stored : \A q \in stored : q.time <= p.time).weight
        ELSE None

\* the activities get_activity_vo2 evaluates: a listed type and a start time
Qualifying(i) ==
    acts[i].typeKey \in Vo2Types /\ acts[i].startTimeGMT # None

IsCycling(i) == Qualifying(i) /\ acts[i].typeKey \in CyclingTypes

IsRunning(i) == Qualifying(i) /\ acts[i].typeKey = "running"

\* the returned points of activity i
PointsOf(i) ==
    {k \in DOMAIN ret.points : ret.points[k].ActivityID = acts[i].activityId}

\* round((1.8 * (watts * 6.12) / (grams / 1000)) + 7, 2), in hundredths
CyclingVo2(watts, grams) ==
    RoundHalfEven(100 * (11016 * watts + 7 * grams), grams)

\* C14: get_activity_vo2 takes the body weight from the same-day weigh-in,
\* else from the most recent weight stored at or before the date; without a
\* weight cycling activities get no cycling fields and no point while running
\* activities keep vo2_run_avg / vo2_run_peak; an activity yields at most one
\* point.  The weight shows in the first cycling activity's vo2_cyc_avg.
C14_WeightResolution ==
    ret.fn = "get_activity_vo2" =>
       /\ ret.raised = ""
       /\ \A k \in DOMAIN ret.points :
             \E i \in DOMAIN acts : Qualifying(i) /\ k \in PointsOf(i)
       /\ \A i \in DOMAIN acts : Cardinality(PointsOf(i)) <= 1
       /\ \A i \in DOMAIN acts :
             (IsRunning(i) /\ acts[i].averageSpeed # None) =>
                \E k \in PointsOf(i) :
                   /\ ret.points[k].vo2_run_avg =
                         Some(1200 * acts[i].averageSpeed[1] + 350)
                   /\ ret.points[k].vo2_run_peak =
                         Some(1200 * acts[i].maxSpeed[1] + 350)
       /\ WeightFor = None =>
             \A i \in DOMAIN acts : IsCycling(i) => PointsOf(i) = {}
       /\ WeightFor # None =>
             \A i \in DOMAIN acts :
                ( /\ IsCycling(i)
                  /\ \A j \in 1..(i - 1) : ~IsCycling(j) ) =>
                   \E k \in PointsOf(i) :
                      ret.points[k].vo2_cyc_avg =
                         Some(CyclingVo2(acts[i].avgPower[1], WeightFor[1]))

\* no weigh-in on the date, stored weights of two earlier dates: the cycling
\* estimate uses the later one, and the run of the date has its point too
C14_Witness ==
    /\ ret.fn = "get_activity_vo2"
    /\ WeightFor = Some(70000)
    /\ \A i \in DOMAIN weighIns : weighIns[i] = None
    /\ \E p \in metrics.BodyComposition : p.weight = Some(90000)
    /\ \E i, j \in DOMAIN acts :
          /\ IsCycling(i) /\ PointsOf(i) # {}
          /\ IsRunning(j) /\ PointsOf(j) # {}

\* no weight at all: the ride has no point, the run has one
C14_WitnessNoWeight ==
    /\ ret.fn = "get_activity_vo2"
    /\ WeightFor = None
    /\ \E i, j \in DOMAIN acts :
          /\ IsCycling(i) /\ PointsOf(i) = {}
          /\ IsRunning(j) /\ PointsOf(j) # {}

-----------------------------------------------------------------------------
(* Lactate threshold: custom_metrics.get_lactate_threshold /               *)
(* garmin-fetch.get_lactate_threshold (the same code).  Speeds are whole    *)
(* mm/s, paces exact fractions of a minute per km.                          *)

LtMaxHr == {None, Some(0), Some(100), Some(160)}

\* trackpoint runs of a TCX: in the band of max 100 (85..91), on its edges,
\* outside it, in the band of max 160, at and under the speed floor, and at
\* 3.335 m/s (4.9975 min/km)
LtTracks ==
    { <<>>,
      << Block(1, Some(88), Some(3000)) >>,
      << Block(2, Some(85), Some(3000)), Block(1, Some(91), Some(5000)) >>,
      << Block(1, Some(88), Some(4000)), Block(1, Some(84), Some(5000)),
         Block(1, Some(92), Some(5000)) >>,
      << Block(1, Some(88), Some(2000)), Block(1, Some(88), Some(0)),
         Block(1, None, Some(4000)), Block(1, Some(88), None) >>,
      << Block(1, Some(140), Some(4000)), Block(1, Some(88), Some(5000)) >>,
      << Block(1, Some(88), Some(3335)) >> }

\* an activity summary with what download_activity(id, TCX) does for it
LtActivity(typeKey, download, track) ==
    [typeKey |-> typeKey, download |-> download, track |-> track]

LtActivities ==
    {LtActivity("running", "ok", t) : t \in LtTracks}
    \cup {LtActivity("running", "fail", <<>>),
          LtActivity("cycling", "ok", << Block(1, Some(88), Some(5000)) >>)}

\* lo <= hr <= hi with lo, hi = 0.88 * maxhr -+ 3
InBand(hr, maxhr) ==
    /\ 88 * maxhr - 300 <= 100 * hr
    /\ 100 * hr <= 88 * maxhr + 300

\* (1000.0 / speed_m_s) / 60.0, sp in mm/s
Pace(sp) == Norm(50000, 3 * sp)

\* the paces one run of trackpoints appends to pace_list
Repeat(x, n) == [i \in 1..n |-> x]

BlockPaces(b, maxhr) ==
    IF b.hr = None \/ b.sp = None THEN <<>>
    ELSE IF b.sp[1] <= 0 THEN <<>>
    ELSE IF InBand(b.hr[1], maxhr) /\ b.sp[1] > 2000
         THEN Repeat(Pace(b.sp[1]), b.n)
         ELSE <<>>

RECURSIVE TrackPaces(_, _)
TrackPaces(track, maxhr) ==
    IF track = <<>> THEN <<>>
    ELSE BlockPaces(track[1], maxhr) \o TrackPaces(Tail(track), maxhr)

\* the loop "for a in acts": pace_list, or the exception of a download
RECURSIVE PaceList(_, _)
PaceList(al, maxhr) ==
    IF al = <<>> THEN [raised |-> "", paces |-> <<>>]
    ELSE IF al[1].typeKey # "running" THEN PaceList(Tail(al), maxhr)
    ELSE IF al[1].download # "ok" THEN [raised |-> "Exception", paces |-> <<>>]
    ELSE LET rest == PaceList(Tail(al), maxhr)
         IN  IF rest.raised # "" THEN rest
             ELSE [raised |-> "",
                   paces  |-> TrackPaces(al[1].track, maxhr) \o rest.paces]

\* the k-th smallest of a list of fractions
KthSmallest(s, k) ==
    LET Below(x)   == Cardinality({i \in DOMAIN s : RatLt(s[i], x)})
        UpTo(x)    == Cardinality({i \in DOMAIN s : RatLe(s[i], x)})
    IN  s[CHOOSE i \in DOMAIN s : Below(s[i]) < k /\ k <= UpTo(s[i])]

\* (mutant) the mean in place of the median
median_AsMean(s) == RatDiv(RatSum(s), Rat(Len(s), 1))

\* statistics.median of a non-empty list
median(s) ==
    LET n == Len(s)
    IN  IF n % 2 = 1 THEN KthSmallest(s, (n + 1) \div 2)
        ELSE RatDiv(RatAdd(KthSmallest(s, n \div 2),
                           KthSmallest(s, n \div 2 + 1)), Rat(2, 1))

\* hr_lactate in tenths, pace_lactate_num in hundredths, pace_lactate_str as
\* its two numbers << mins, secs >>
LactatePoint(t, hr_lactate, pace_num, pace_str) ==
    [time |-> t, hr_lactate |-> hr_lactate, pace_lactate_num |-> pace_num,
     pace_lactate_str |-> pace_str]

get_lactate_threshold(st, al, d) ==
    IF ~Truthy(st.maxHeartRate) THEN Returned("get_lactate_threshold", <<>>)
    ELSE LET maxhr == st.maxHeartRate[1]
             pl    == PaceList(al, maxhr)
         IN  IF pl.raised # "" THEN Raised("get_lactate_threshold", pl.raised)
             ELSE IF pl.paces = <<>>
             THEN Returned("get_lactate_threshold", <<>>)
             ELSE LET med_pace == median(pl.paces)
                      mins     == med_pace.n \div med_pace.d
                      secs     == Round(RatMul(RatSub(med_pace, Rat(mins, 1)),
                                               Rat(60, 1)), 1)
                  IN  Returned("get_lactate_threshold",
                         << LactatePoint(Midnight(d),
                               Some(Round(Rat(88 * maxhr, 100), 10)),
                               Some(Round(med_pace, 100)),
                               Some(<< mins, secs >>)) >>)

\* daily_fetch_write: write_points_to_influxdb(get_lactate_threshold(date_str));
\* an exception of the calculator ends the run
LactateDay ==
    /\ pc = "run"
    /\ LET r == get_lactate_threshold(stats, acts, day)
       IN  /\ ret' = r
           /\ metrics' = [metrics EXCEPT !.LactateThreshold =
                             write_points_to_influxdb(@, r.points)]
           /\ pc' = IF r.raised = "" THEN "run" ELSE "crashed"
    /\ UNCHANGED <<day, runs, trainingLoad, sleepSummary, dailyStats, vo2Max,
                   telemetryVars, loopVars>>

InitLactate ==
    /\ day = 0
    /\ runs = 0
    /\ trainingLoad = {}
    /\ sleepSummary = {}
    /\ dailyStats = {}
    /\ vo2Max = {}
    /\ metrics = EmptyMetrics
    /\ stats \in {HrStats(Some(40), m) : m \in LtMaxHr}
    /\ hrVals = <<>>
    /\ acts \in UNION {[1..n -> LtActivities] : n \in 0..MaxActs}
    /\ weighIns = None
    /\ wellness = NoWellness
    /\ today = 0
    /\ NoLoop
    /\ ret = NoCall
    /\ pc = "run"

NextLactate == LactateDay

SpecLactate == InitLactate /\ [][NextLactate]_vars

\* the call the claim is about: a known, positive max HR and every running
\* activity's track downloaded
LactateCall ==
    /\ ret.fn = "get_lactate_threshold"
    /\ Truthy(stats.maxHeartRate)
    /\ \A i \in DOMAIN acts :
          acts[i].typeKey = "running" => acts[i].download = "ok"

\* the paces of the trackpoints of the date's running activities with
\* speed > 2 m/s and HR in [0.88 * max_hr - 3, 0.88 * max_hr + 3]
RECURSIVE QualifyingPaces(_)
QualifyingPaces(i) ==
    IF i > Len(acts) THEN <<>>
    ELSE LET Q(b) == /\ b.hr # None /\ b.sp # None /\ b.sp[1] > 2000
                     /\ 100 * b.hr[1] >= 88 * stats.maxHeartRate[1] - 300
                     /\ 100 * b.hr[1] <= 88 * stats.maxHeartRate[1] + 300
             tr   == SelectSeq(acts[i].track, Q)
             RECURSIVE Of(_)
             Of(t) == IF t = <<>> THEN <<>>
                      ELSE Repeat(Norm(1000000, 60 * t[1].sp[1]), t[1].n)
                           \o Of(Tail(t))
         IN  (IF acts[i].typeKey = "running" THEN Of(tr) ELSE <<>>)
             \o QualifyingPaces(i + 1)

\* the median of a non-empty list of fractions: the mean of the values that
\* stand at the places (n - 1) div 2 and n div 2 (from 0) of the sorted list
MedianOf(s) ==
    LET At(r) == s[CHOOSE i \in DOMAIN s :
                     /\ Cardinality({j \in DOMAIN s : RatLt(s[j], s[i])}) <= r
                     /\ Cardinality({j \in DOMAIN s : RatLe(s[j], s[i])}) > r]
        lo    == At((Len(s) - 1) \div 2)
        hi    == At(Len(s) \div 2)
    IN  Norm(lo.n * hi.d + hi.n * lo.d, 2 * lo.d * hi.d)

C15_WitnessEmpty ==
    /\ LactateCall
    /\ \E i \in DOMAIN acts :
          acts[i].typeKey = "running" /\ acts[i].track # <<>>
    /\ QualifyingPaces(1) = <<>>
    /\ ret.points = <<>>

-----------------------------------------------------------------------------
(* The daily run: garmin-fetch.fetch_write_bulk(d, d) with                  *)
(* daily_fetch_write(d).  The measurements kept are those a calculator      *)
(* writes or reads, and TrainingReadiness; the intraday measurements,       *)
(* ActivitySummary and ActivityGPS are points that carry the timestamps of  *)
(* their telemetry and are read by no calculator.                           *)

\* runs of the process for the one date
MaxDailyRuns == 2

\* activities of the date
MaxDailyActs == 1

\* UPDATE_INTERVAL_SECONDS: seconds between one run and the next
UPDATE_INTERVAL_SECONDS == 300

\* logging.error("Unable to connect with database! ...")
WriteError == "Unable to connect with database!"

\* logging.info("Success : Fetched all available health metrics for date ...")
FetchSuccess == "Success : Fetched all available health metrics"

\* logging.info("Connection Error : Failed to fetch ... - skipping date ...")
FetchSkipped == "Connection Error : skipping date"

\* the Metrics Store as one value, with what the run has met so far
Store(tl, ss, ds, vm, ms) ==
    [trainingLoad |-> tl, sleepSummary |-> ss, dailyStats |-> ds,
     vo2Max |-> vm, metrics |-> ms, raised |-> "", write_failed |-> FALSE]

\* write_points_to_influxdb(points) into one measurement; write_ok = FALSE:
\* influxdbclient.write_points raises InfluxDBClientError, which is logged
Put(S, measurement, points, write_ok) ==
    IF points = <<>> THEN S
    ELSE IF ~write_ok THEN [S EXCEPT !.write_failed = TRUE]
    ELSE [S EXCEPT ![measurement] = write_points_to_influxdb(@, points)]

\* write_points of points whose fields all have a value: the stored point of
\* the same time gets every field of the new one
WriteWholePoints(measurement, points) ==
    {q \in measurement : \A i \in DOMAIN points : points[i].time # q.time}
    \cup {points[i] : i \in DOMAIN points}

PutMetric(S, name, points, write_ok) ==
    IF points = <<>> THEN S
    ELSE IF ~write_ok THEN [S EXCEPT !.write_failed = TRUE]
    ELSE [S EXCEPT !.metrics[name] =
             IF name = "ActivityVO2Est" THEN WriteActivityPoints(@, points)
             ELSE IF name = "HRVTrend" THEN WriteWholePoints(@, points)
             ELSE write_points_to_influxdb(@, points)]

\* one line "write_points_to_influxdb(calculator(date_str))": nothing more
\* happens once an exception is on its way out of daily_fetch_write
Line(S, r, written) ==
    IF S.raised # "" THEN S
    ELSE IF r.raised # "" THEN [S EXCEPT !.raised = r.raised]
    ELSE written

\* tel: what the Telemetry Source and the clock give during the run
Telemetry(st, hr_vals, al, wdata, well, now) ==
    [stats |-> st, hrVals |-> hr_vals, acts |-> al, weighIns |-> wdata,
     wellness |-> well, today |-> now]

\* the lines of daily_fetch_write, each "write_points_to_influxdb(f(date_str))"

\* get_daily_stats: wellnessStartTimeGmt and date < datetime.today()
LineDailyStats(S, tel, d, write_ok) ==
    Put(S, "dailyStats",
        IF tel.wellness.stress # None /\ Midnight(d) < tel.today
        THEN get_daily_stats(d, tel.wellness.stress) ELSE <<>>,
        write_ok)

\* get_sleep_data: sleepEndTimestampGMT
LineSleepData(S, tel, d, write_ok) ==
    Put(S, "sleepSummary",
        IF tel.wellness.slp # None \/ tel.wellness.hrv # None
        THEN get_sleep_data(d, tel.wellness.slp, tel.wellness.hrv) ELSE <<>>,
        write_ok)

LineBodyComposition(S, tel, d, write_ok) ==
    PutMetric(S, "BodyComposition",
              get_body_composition(d, tel.weighIns).points, write_ok)

LineTrainingLoad(S, tel, d, write_ok) ==
    LET r == get_training_load(tel.stats, tel.hrVals, d)
    IN  Line(S, r, Put(S, "trainingLoad", r.points, write_ok))

LineVo2Max(S, tel, d, write_ok) ==
    LET r == get_vo2max(tel.stats, d)
    IN  Line(S, r, Put(S, "vo2Max", r.points, write_ok))

LineActivityVo2(S, tel, d, write_ok) ==
    LET r == get_activity_vo2(tel.weighIns, S.metrics.BodyComposition,
                              tel.acts, d)
    IN  Line(S, r, PutMetric(S, "ActivityVO2Est", r.points, write_ok))

LineVo2MaxSegmented(S, tel, d, write_ok) ==
    LET r == get_vo2max_segmented(tel.stats, tel.acts, d)
    IN  Line(S, r, Put(S, "vo2Max", r.points, write_ok))

\* garmin_obj.get_training_readiness(date_str): Garmin's own Training
\* Readiness rows, one (taken at the end of the night) for a date with a
\* sleep score
GarminReadiness(well, d) ==
    IF well.slp = None THEN <<>>
    ELSE << [timestamp |-> Some(SleepEnd(d)), score |-> None,
             sleepScore |-> well.slp] >>

\* the TrainingReadiness point of one row: its timestamp and data_fields
GarminReadinessPoint(row) ==
    [time |-> row.timestamp[1], score |-> row.score,
     sleepScore |-> row.sleepScore]

\* get_training_readiness(date_str) as the name is bound when
\* daily_fetch_write runs: the second definition of the module, which
\* replaces the composite scorer defined before it
get_training_readiness_garmin(tr_list_all) ==
    LET Kept(row) == /\ ~(row.score = None /\ row.sleepScore = None)
                     /\ row.timestamp # None
        rows      == SelectSeq(tr_list_all, Kept)
    IN  Returned("get_training_readiness",
                 [i \in DOMAIN rows |-> GarminReadinessPoint(rows[i])])

LineTrainingReadiness(S, tel, d, write_ok) ==
    LET r == get_training_readiness_garmin(GarminReadiness(tel.wellness, d))
    IN  Line(S, r, PutMetric(S, "TrainingReadiness", r.points, write_ok))

LineLactateThreshold(S, tel, d, write_ok) ==
    LET r == get_lactate_threshold(tel.stats, tel.acts, d)
    IN  Line(S, r, PutMetric(S, "LactateThreshold", r.points, write_ok))

\* (mutant) the ACWR point is stamped with the time of the run
LineAcwr_Stamped(S, tel, d, write_ok) ==
    LET r   == get_acwr(S.trainingLoad, d)
        pts == [i \in DOMAIN r.points |->
                   [r.points[i] EXCEPT !.time = tel.today]]
    IN  Line(S, r, Put(S, "trainingLoad", pts, write_ok))

LineAcwr(S, tel, d, write_ok) ==
    LET r == get_acwr(S.trainingLoad, d)
    IN  Line(S, r, Put(S, "trainingLoad", r.points, write_ok))

LineHrvBaseline(S, tel, d, write_ok) ==
    LET r == get_hrv_baseline(S.sleepSummary, d)
    IN  Line(S, r, PutMetric(S, "HRVTrend", r.points, write_ok))

\* (fetch_activity_GPS, between the body composition and the training load:
\*  a download that times out is logged and [] is returned)
daily_fetch_write(S0, tel, d, write_ok) ==
    LineHrvBaseline(
     LineAcwr(
      LineLactateThreshold(
       LineTrainingReadiness(
        LineVo2MaxSegmented(
         LineActivityVo2(
          LineVo2Max(
           LineTrainingLoad(
            LineBodyComposition(
             LineSleepData(
              LineDailyStats(S0, tel, d, write_ok),
              tel, d, write_ok),
             tel, d, write_ok),
            tel, d, write_ok),
           tel, d, write_ok),
          tel, d, write_ok),
         tel, d, write_ok),
        tel, d, write_ok),
       tel, d, write_ok),
      tel, d, write_ok),
     tel, d, write_ok)

\* what fetch_write_bulk logs for the date; an exception that is neither a
\* Garmin nor a requests error leaves fetch_write_bulk
fetch_write_bulk(S) ==
    [fn     |-> "fetch_write_bulk",
     raised |-> IF S.raised \in {"", "Exception"} THEN "" ELSE S.raised,
     points |-> <<>>,
     logged |-> (IF S.write_failed THEN << WriteError >> ELSE <<>>)
                \o (IF S.raised = "" THEN << FetchSuccess >>
                    ELSE IF S.raised = "Exception" THEN << FetchSkipped >>
                    ELSE <<>>),
     value  |-> None]

\* one run of the process for the date "day" (a process that has ended with
\* an exception is started again); the store takes the writes of this run or
\* rejects them
FetchWriteBulk ==
    /\ runs < MaxDailyRuns
    /\ \E write_ok \in BOOLEAN :
          LET S == daily_fetch_write(
                       Store(trainingLoad, sleepSummary, dailyStats, vo2Max,
                             metrics),
                       Telemetry(stats, hrVals, acts, weighIns, wellness, today),
                       day, write_ok)
              r == fetch_write_bulk(S)
          IN  /\ trainingLoad' = S.trainingLoad
              /\ sleepSummary' = S.sleepSummary
              /\ dailyStats' = S.dailyStats
              /\ vo2Max' = S.vo2Max
              /\ metrics' = S.metrics
              /\ ret' = r
              /\ pc' = IF r.raised = "" THEN "run" ELSE "crashed"
    /\ runs' = runs + 1
    /\ today' = today + UPDATE_INTERVAL_SECONDS
    /\ UNCHANGED <<day, stats, hrVals, acts, weighIns, wellness, loopVars>>

\* the activities of the date: a run and a ride with their tracks, and the
\* same with a download that times out
DailyWorkouts ==
    LET T == << Block(MinSegmentPoints, Some(92), Some(3000)),
                Block(MinSegmentPoints, Some(100), Some(4000)),
                Block(1, Some(50), Some(2000)),
                Block(2, Some(88), Some(3000)),
                Block(1, Some(50), Some(2000)) >>
        A(typ, sp, pw, dl) ==
            [typeKey |-> typ, averageSpeed |-> sp, maxSpeed |-> sp,
             avgPower |-> pw, maxPower |-> pw, hasPolyline |-> TRUE,
             download |-> dl, track |-> IF dl = "ok" THEN T ELSE <<>>]
    IN  {A("running", Some(3), None, dl) : dl \in {"ok", "timeout"}}
        \cup {A("cycling", Some(7), Some(70), dl) : dl \in {"ok", "timeout"}}

DailyActivities(d, ws) ==
    [i \in DOMAIN ws |->
        [activityId   |-> 10 * d + i,
         typeKey      |-> ws[i].typeKey,
         startTimeGMT |-> Some(Midnight(d) + (7 + i) * 3600),
         averageSpeed |-> ws[i].averageSpeed,
         maxSpeed     |-> ws[i].maxSpeed,
         avgPower     |-> ws[i].avgPower,
         maxPower     |-> ws[i].maxPower,
         hasPolyline  |-> ws[i].hasPolyline,
         download     |-> ws[i].download,
         track        |-> ws[i].track]]

\* the store after the runs of the n dates before d, each with a night of
\* HRV 60 and sleep score 80, stress 30 and a TRIMP of 50.0
RECURSIVE StoreAfter(_, _)
StoreAfter(d, n) ==
    IF n = 0 THEN Store({}, {}, {}, {}, EmptyMetrics)
    ELSE LET S == StoreAfter(d, n - 1)
             k == d - n
         IN  [S EXCEPT
                !.dailyStats   = write_points_to_influxdb(@,
                                     get_daily_stats(k, Some(30))),
                !.sleepSummary = write_points_to_influxdb(@,
                                     get_sleep_data(k, Some(80), Some(60))),
                !.trainingLoad = write_points_to_influxdb(@,
                                     << TrainingLoadPoint(Midnight(k), Some(5000),
                                                          None) >>)]

HistoryDays == {0, 8}

InitDaily ==
    /\ day = 0
    /\ runs = 0
    /\ \E n \in HistoryDays :
          LET S == StoreAfter(day, n)
          IN  /\ trainingLoad = S.trainingLoad
              /\ sleepSummary = S.sleepSummary
              /\ dailyStats = S.dailyStats
              /\ vo2Max = S.vo2Max
              /\ metrics = S.metrics
    /\ stats \in {HrStats(None, None), HrStats(Some(40), Some(100))}
    /\ hrVals \in { <<>>,
                    << <<0, Some(40)>>, <<60000, Some(40)>> >>,
                    << <<0, Some(100)>>, <<60000, Some(100)>> >> }
    /\ \E ws \in UNION {[1..n -> DailyWorkouts] : n \in 0..MaxDailyActs} :
          acts = DailyActivities(day, ws)
    /\ weighIns \in { <<>>, << Some(70000) >> }
    /\ wellness \in {NoWellness, Wellness(Some(80), Some(60), Some(30))}
    /\ today \in {Midnight(day), Midnight(day) + 12 * 3600}
    /\ NoLoop
    /\ ret = NoCall
    /\ pc = "run"

NextDaily == FetchWriteBulk

SpecDaily == InitDaily /\ [][NextDaily]_vars

Logged(r, line) == \E i \in DOMAIN r.logged : r.logged[i] = line

\* a run of the date that follows another one, neither with a rejected write
Rerun ==
    /\ ret.fn = "fetch_write_bulk"
    /\ ret'.fn = "fetch_write_bulk"
    /\ runs' = runs + 1
    /\ day' = day
    /\ <<stats, hrVals, acts, weighIns, wellness>>'
          = <<stats, hrVals, acts, weighIns, wellness>>
    /\ ~Logged(ret, WriteError)
    /\ ~Logged(ret', WriteError)

\* C16 (as stated): running daily_fetch_write a second time for the same
\* date against unchanged telemetry leaves the Metrics Store as the first run
\* left it.
C16_RerunSameStore ==
    [][Rerun => storeVars' = storeVars]_vars

\* datetime.today() at the run before this one
PreviousRunAt == today - UPDATE_INTERVAL_SECONDS

\* C16 (amended): when the date had begun by the process's clock at the first
\* run (its midnight < datetime.today()), running daily_fetch_write a second
\* time against unchanged telemetry leaves the Metrics Store as the first run
\* left it.
C16_RerunSameStoreBegun ==
    [][(Rerun /\ Midnight(day) < PreviousRunAt) => storeVars' = storeVars]_vars

\* two runs of a date that had begun: its TRIMP and ACWR are one TrainingLoad
\* point, its VO2max estimates one VO2Max point, and there is one point of
\* the activity, of the lactate threshold and of the HRV trend
C16_Witness ==
    /\ ret.fn = "fetch_write_bulk"
    /\ runs = 2
    /\ Midnight(day) < today - 2 * UPDATE_INTERVAL_SECONDS
    /\ Logged(ret, FetchSuccess)
    /\ ~Logged(ret, WriteError)
    /\ \E p \in trainingLoad :
          p.time = Midnight(day) /\ p.banisterTRIMP # None /\ p.ACWR # None
    /\ \E p \in vo2Max :
          p.time = Midnight(day) /\ p.estimatedVo2Max # None /\ p.estimate # None
    /\ \E p \in dailyStats : p.time = Midnight(day)
    /\ Cardinality(metrics.ActivityVO2Est) = 1
    /\ Cardinality(metrics.LactateThreshold) = 1
    /\ Cardinality(metrics.HRVTrend) = 1

\* C18: a failing track download or a rejected store write surfaces as a
\* failure of the run: a date of which a write was rejected or a track could
\* not be downloaded is not logged as successfully fetched.
C18_FailureSurfaces ==
    (ret.fn = "fetch_write_bulk" /\ Logged(ret, FetchSuccess)) =>
       /\ ~Logged(ret, WriteError)
       /\ \A i \in DOMAIN acts :
             acts[i].hasPolyline => acts[i].download = "ok"

\* C17: get_acwr never raises, whatever the TRIMP history (histories whose
\* TRIMP values are all 0.0 included): it returns [] or one point.
C17_AcwrNeverRaises ==
    ret.fn = "get_acwr" =>
       /\ ret.raised = ""
       /\ Len(ret.points) <= 1

-----------------------------------------------------------------------------
(* HR-zone focus: method_test.calculate_training_load_focus *)

\* hrTimeInZone_1..5 of an activity, None where Garmin gives no value
ZoneTimes ==
    { << Some(10), Some(20), Some(30), Some(40), Some(0) >>,
      << Some(0), Some(0), Some(0), Some(0), Some(0) >>,
      << None, None, None, None, None >>,
      << Some(1), Some(1), Some(1), None, Some(0) >>,
      << Some(0), Some(0), Some(0), Some(0), Some(5) >> }

\* the dates with activities, counted from the end date backwards
FocusDates == {0, 1, 2}

\* the --days argument
FocusDays == {1, 2}

\* an activity of get_activities_by_date(d, d), d = end date - ago
ZoneActivity(ago, zones) == [ago |-> ago, zones |-> zones]

ZoneActivities == {ZoneActivity(a, z) : a \in FocusDates, z \in ZoneTimes}

\* zones[z-1] += act.get(f'hrTimeInZone_{z}', 0) or 0, over the activities of
\* the dates end - i, i in range(days)
RECURSIVE ZoneSum(_, _, _)
ZoneSum(al, days, z) ==
    IF al = <<>> THEN 0
    ELSE (IF al[1].ago < days /\ al[1].zones[z] # None
          THEN al[1].zones[z][1] ELSE 0)
         + ZoneSum(Tail(al), days, z)

Focus(low, high, anaerobic) ==
    [low_aerobic |-> low, high_aerobic |-> high, anaerobic |-> anaerobic]

\* (mutant) the fourth zone counts as anaerobic
calculate_training_load_focus_Zone4(al, days) ==
    LET zones == [z \in 1..5 |-> ZoneSum(al, days, z)]
        total == zones[1] + zones[2] + zones[3] + zones[4] + zones[5]
    IN  IF total = 0
        THEN ReturnedValue("calculate_training_load_focus", None)
        ELSE ReturnedValue("calculate_training_load_focus",
                 Some(Focus(RoundHalfEven((zones[1] + zones[2]) * 1000, total),
                            RoundHalfEven(zones[3] * 1000, total),
                            RoundHalfEven((zones[4] + zones[5]) * 1000, total))))

\* the percentages in tenths: round(x / total * 100, 1)
calculate_training_load_focus(al, days) ==
    LET zones == [z \in 1..5 |-> ZoneSum(al, days, z)]
        total == zones[1] + zones[2] + zones[3] + zones[4] + zones[5]
    IN  IF total = 0
        THEN ReturnedValue("calculate_training_load_focus", None)
        ELSE ReturnedValue("calculate_training_load_focus",
                 Some(Focus(RoundHalfEven((zones[1] + zones[2]) * 1000, total),
                            RoundHalfEven((zones[3] + zones[4]) * 1000, total),
                            RoundHalfEven(zones[5] * 1000, total))))

\* method_test main: calculate_training_load_focus(garmin, args.date, args.days)
CalculateTrainingLoadFocus(days) ==
    /\ pc = "run"
    /\ ret' = calculate_training_load_focus(acts, days)
    /\ UNCHANGED <<day, runs, storeVars, telemetryVars, loopVars, pc>>

InitFocus ==
    /\ day = 0
    /\ runs = 0
    /\ trainingLoad = {}
    /\ sleepSummary = {}
    /\ dailyStats = {}
    /\ vo2Max = {}
    /\ metrics = EmptyMetrics
    /\ stats = HrStats(None, None)
    /\ hrVals = <<>>
    /\ acts \in UNION {[1..n -> ZoneActivities] : n \in 0..MaxActs}
    /\ weighIns = None
    /\ wellness = NoWellness
    /\ today = 0
    /\ NoLoop
    /\ ret = NoCall
    /\ pc = "run"

NextFocus == \E days \in FocusDays : CalculateTrainingLoadFocus(days)

SpecFocus == InitFocus /\ [][NextFocus]_vars

\* the time in zone z summed over all activities of the `days` dates that end
\* at the end date
ZoneTotal(days, z) ==
    LET In == {i \in DOMAIN acts : acts[i].ago <= days - 1
                                   /\ acts[i].zones[z] # None}
        RECURSIVE Sum(_)
        Sum(I) == IF I = {} THEN 0
                  ELSE LET i == CHOOSE j \in I : TRUE
                       IN  acts[i].zones[z][1] + Sum(I \ {i})
    IN  Sum(In)

AllZones(days) ==
    ZoneTotal(days, 1) + ZoneTotal(days, 2) + ZoneTotal(days, 3)
    + ZoneTotal(days, 4) + ZoneTotal(days, 5)

\* the call with --days = n has just returned
FocusCalled(n) == CalculateTrainingLoadFocus(n)

\* C19 (as stated): calculate_training_load_focus returns low_aerobic =
\* (z1+z2)/total, high_aerobic = (z3+z4)/total, anaerobic = z5/total as
\* percentages of the zone times summed over the `days` dates, None when the
\* total is 0.  (values in tenths of a percent)
C19_FocusExact ==
    [][\A n \in FocusDays : FocusCalled(n) =>
          IF AllZones(n) = 0 THEN ret'.value = None
          ELSE /\ ret'.value # None
               /\ ret'.value[1].low_aerobic * AllZones(n) =
                     1000 * (ZoneTotal(n, 1) + ZoneTotal(n, 2))
               /\ ret'.value[1].high_aerobic * AllZones(n) =
                     1000 * (ZoneTotal(n, 3) + ZoneTotal(n, 4))
               /\ ret'.value[1].anaerobic * AllZones(n) =
                     1000 * ZoneTotal(n, 5)]_vars

\* C19 (amended): the three percentages are rounded to one decimal.
C19_FocusRounded ==
    [][\A n \in FocusDays : FocusCalled(n) =>
          IF AllZones(n) = 0 THEN ret'.value = None
          ELSE ret'.value =
                  Some(Focus(
                     RoundHalfEven(1000 * (ZoneTotal(n, 1) + ZoneTotal(n, 2)),
                                   AllZones(n)),
                     RoundHalfEven(1000 * (ZoneTotal(n, 3) + ZoneTotal(n, 4)),
                                   AllZones(n)),
                     RoundHalfEven(1000 * ZoneTotal(n, 5), AllZones(n))))]_vars

\* the activity with zones (10, 20, 30, 40, 0) alone: 30.0 / 70.0 / 0.0
C19_Witness ==
    /\ ret.fn = "calculate_training_load_focus"
    /\ Len(acts) = 1
    /\ acts[1].zones = << Some(10), Some(20), Some(30), Some(40), Some(0) >>
    /\ ret.value = Some(Focus(300, 700, 0))

\* zone times (1, 1, 1, -, 0): 66.7 / 33.3 / 0.0
C19_WitnessRounded ==
    /\ ret.fn = "calculate_training_load_focus"
    /\ ret.value = Some(Focus(667, 333, 0))

\* no zone time in the window: None
C19_WitnessNone ==
    /\ ret.fn = "calculate_training_load_focus"
    /\ acts # <<>>
    /\ ret.value = None

-----------------------------------------------------------------------------
(* Readiness inputs: custom_metrics.get_readiness_inputs *)

\* the rows of SELECT last("sleepScore") AS sc FROM "ReadinessInputs" ...
\* GROUP BY time(1d) over the three days that end with the date: at most one
\* row per day, sc null for a day without a value
MaxSleepRows == 3

SleepRows == UNION {[1..n -> {None, Some(60), Some(85)}] : n \in 0..MaxSleepRows}

\* [p["sc"] for p in pts if p.get("sc") is not None]
ScoresOf(pts) ==
    LET HasScore(sc) == sc # None
        kept == SelectSeq(pts, HasScore)
    IN  [i \in DOMAIN kept |-> kept[i][1]]

\* acuteLoad in units of 0.0001, ATL, CTL and sleepHist in tenths
\* (bodyBatteryAtWake, copied from get_stats, is left out)
ReadinessInputsPoint(t, load, atl, ctl, hrv, slp, hist, stress) ==
    [time |-> t, acuteLoad |-> load, ATL |-> atl, CTL |-> ctl,
     avgOvernightHrv |-> hrv, sleepScore |-> slp, sleepHist |-> hist,
     stressPct |-> stress]

\* x or None, x or 0.0
OrNone(v) == IF Truthy(v) THEN v ELSE None

OrZero(v) == IF Truthy(v) THEN v ELSE Some(0)

get_readiness_inputs(st, hr_vals, well, pts, loads, d) ==
    LET fn          == "get_readiness_inputs"
        stress_pct  == OrZero(well.stress)
        avg_hrv     == OrNone(well.hrv)
        sleep_score == OrNone(well.slp)
        scores      == ScoresOf(pts)
        trimp_today == OrZero(get_training_load_slice(
                                  st, hr_vals, Midnight(d) * 1000,
                                  Midnight(d + 1) * 1000).value)
        load        == compute_ctl_atl(loads, d)
        Tenths(x)   == RoundHalfEven(x.n, x.d * 10)
    IN  \* mean([]) when rows came and none has a score
        IF pts # <<>> /\ scores = <<>> THEN Raised(fn, "StatisticsError")
        ELSE Returned(fn,
                 << ReadinessInputsPoint(
                        Midnight(d) + 7 * 3600,
                        trimp_today,
                        Some(Tenths(load.atl)),
                        Some(Tenths(load.ctl)),
                        avg_hrv,
                        sleep_score,
                        IF pts # <<>> THEN Some(Round(mean(scores), 10))
                        ELSE None,
                        stress_pct) >>)

\* get_readiness_inputs(garmin_obj, date_str, influxdbclient, device) with
\* the rows the sleep-history query returns
ReadinessInputsDay(pts) ==
    /\ pc = "run"
    /\ LET r == get_readiness_inputs(stats, hrVals, wellness, pts,
                                     trainingLoad, day)
       IN  /\ ret' = r
           /\ pc' = IF r.raised = "" THEN "run" ELSE "crashed"
    /\ UNCHANGED <<day, runs, storeVars, telemetryVars, loopVars>>

\* the TrainingLoad measurement after earlier runs: nothing, a week of
\* TRIMP 3.00, a day of TRIMP 1.00 five weeks ago
LoadHistories ==
    { {},
      {TrainingLoadPoint(Midnight(0 - k), Some(300), None) : k \in 1..7},
      {TrainingLoadPoint(Midnight(0 - 35), Some(100), None)} }

InitInputs ==
    /\ day = 0
    /\ runs = 0
    /\ trainingLoad \in LoadHistories
    /\ sleepSummary = {}
    /\ dailyStats = {}
    /\ vo2Max = {}
    /\ metrics = EmptyMetrics
    /\ stats \in {HrStats(None, None), HrStats(Some(60), Some(100))}
    /\ hrVals \in { <<>>,
                    << <<0, Some(100)>>, <<60000, Some(100)>> >>,
                    << <<0, None>>, <<60000, Some(100)>> >> }
    /\ acts = <<>>
    /\ weighIns = None
    /\ wellness \in {NoWellness, Wellness(Some(80), Some(60), Some(30)),
                     Wellness(Some(0), Some(0), Some(0))}
    /\ today = 0
    /\ NoLoop
    /\ ret = NoCall
    /\ pc = "run"

NextInputs == \E pts \in SleepRows : ReadinessInputsDay(pts)

SpecInputs == InitInputs /\ [][NextInputs]_vars

\* C20: get_readiness_inputs returns exactly one ReadinessInputs point for
\* every telemetry and store state, missing metrics filled with 0 or null;
\* so it does when the sleep-history query returns rows whose sleepScore
\* values are all null.
C20_InputsAlwaysOnePoint ==
    [][\A pts \in SleepRows : ReadinessInputsDay(pts) =>
          /\ ret'.raised = ""
          /\ Len(ret'.points) = 1
          /\ ret'.points[1].acuteLoad # None
          /\ ret'.points[1].stressPct # None]_vars

-----------------------------------------------------------------------------
(* TRIMP: intensity, sample order, and the two implementations *)

\* the series sorted by timestamp (stable), by insertion
RECURSIVE SortedByTime(_)
SortedByTime(vals) ==
    IF Len(vals) < 2 THEN vals
    ELSE LET rest  == SortedByTime(Tail(vals))
             h     == Head(vals)
             Le(s) == s[1] < h[1]
             k     == Len(SelectSeq(rest, Le))
         IN  SubSeq(rest, 1, k) \o <<h>> \o SubSeq(rest, k + 1, Len(rest))

\* the series with the bpm of sample i replaced by h
WithBpm(vals, i, h) == [vals EXCEPT ![i] = <<vals[i][1], Some(h)>>]

\* garmin-fetch.get_training_load ran to its accumulation loop
TrimpAccumulated ==
    /\ ret.fn = "get_training_load"
    /\ ~InvalidHr(stats)
    /\ Len(hrVals) >= 2

\* total_trimp of garmin-fetch.get_training_load before round(total_trimp, 2)
TotalTrimp(vals) ==
    SumPairs(vals, stats.restingHeartRate[1], stats.maxHeartRate[1])

\* C21: TRIMP is non-decreasing in HR intensity: with the timestamps and
\* resting/max HR fixed, raising the bpm of a sample (and so the midpoint HR
\* of its pairs) never lowers a pair's contribution nor the total TRIMP.
C21_TrimpMonotone ==
    TrimpAccumulated =>
        \A i \in DOMAIN hrVals : \A h \in HrBpm \ {None} :
            (hrVals[i][2] # None /\ h[1] >= hrVals[i][2][1])
            => TotalTrimp(WithBpm(hrVals, i, h[1])) >= TotalTrimp(hrVals)

\* C22: the TRIMP calculator processes samples in increasing timestamp
\* order: for any arrival order the total equals the total of the
\* timestamp-sorted series, every pair's dt is non-negative and the total is
\* never negative.
C22_TrimpSortsSamples ==
    TrimpAccumulated =>
        /\ ret.raised = ""
        /\ ret.points # <<>>
        /\ ret.points[1].banisterTRIMP
             = Some(RoundHalfEven(TotalTrimp(SortedByTime(hrVals)), 100))
        /\ ret.points[1].banisterTRIMP[1] >= 0

\* the whole series lies inside the date's midnight-to-midnight window
InsideWindow == \A i \in DOMAIN hrVals : 0 <= hrVals[i][1] /\ hrVals[i][1] < DayMs

\* C28: the two TRIMP implementations agree: for every resting/max HR and
\* every HR series inside the date's window (null-bpm entries between
\* non-null ones included) custom_metrics.get_training_load returns the total
\* garmin-fetch.get_training_load computes before rounding.
C28_TrimpImplementationsAgree ==
    ( /\ ret.fn = "get_training_load_slice"
      /\ ~InvalidHr(stats)
      /\ InsideWindow )
    => /\ ret.raised = ""
       /\ ret.value = Some(IF Len(hrVals) < 2 THEN 0 ELSE TotalTrimp(hrVals))

-----------------------------------------------------------------------------
(* Segmented VO2max: segments and activities *)

\* the qualifying segments of each activity's own track, activity by activity
RECURSIVE SegmentsOfActivities(_, _, _)
SegmentsOfActivities(al, rhr, maxhr) ==
    IF al = <<>> THEN <<>>
    ELSE (IF al[1].hasPolyline /\ al[1].download = "ok"
          THEN SegmentTrack(ParseTrack(al[1].track), <<>>, rhr, maxhr)
          ELSE <<>>)
         \o SegmentsOfActivities(Tail(al), rhr, maxhr)

\* C23: in the segmented VO2max estimator every qualifying segment (at least
\* 600 consecutive points at or above resting_hr + 0.7*(max_hr - resting_hr))
\* consists of points of one activity's track: the segments are those of the
\* single tracks, and when no track has one the estimate is the ratio value.
C23_SegmentsWithinOneActivity ==
    ( /\ ret.fn = "get_vo2max_segmented"
      /\ ~NoValidHr(stats)
      /\ DownloadTracks(acts) # <<>> )
    => LET rhr   == stats.restingHeartRate[1]
           maxhr == stats.maxHeartRate[1]
           own   == SegmentsOfActivities(acts, rhr, maxhr)
       IN  /\ SegmentTrack(DownloadTracks(acts), <<>>, rhr, maxhr) = own
           /\ own = <<>> =>
                 /\ ret.raised = ""
                 /\ Len(ret.points) = 1
                 /\ ret.points[1].estimate = Some(Round(Uth(maxhr, rhr), 100))

-----------------------------------------------------------------------------
(* fetch_write_bulk over a date range, and the polling loop around it *)

\* daily_fetch_write calls of one behaviour
MaxAttempts == 4

\* cycles of the polling loop of one behaviour
MaxCycles == 2

\* the dates the ranges are taken from
SyncDays == 0..2

TooManyRequests == "GarminConnectTooManyRequestsError"

ConnectionError == "GarminConnectConnectionError"

AuthenticationError == "GarminConnectAuthenticationError"

\* what the Garmin API does to the first request of a daily_fetch_write call:
\* it answers, or garminconnect raises
ApiOutcomes == {"", TooManyRequests, ConnectionError, AuthenticationError}

\* (mutant) a connection error makes the loop try the date again
Handled_RetryOnConnectionError(exc) ==
    IF exc = "" THEN "next"
    ELSE IF exc \in {TooManyRequests, ConnectionError} THEN "retry"
    ELSE IF exc = "Exception" THEN "skip"
    ELSE IF exc = AuthenticationError THEN "relogin"
    ELSE "raise"

\* the except clauses of fetch_write_bulk: what the loop does after
\* daily_fetch_write(current_date) ended with exc ("": no exception)
Handled(exc) ==
    IF exc = "" THEN "next"
    ELSE IF exc = TooManyRequests THEN "retry"
    ELSE IF exc \in {ConnectionError, "Exception"} THEN "skip"
    ELSE IF exc = AuthenticationError THEN "relogin"
    ELSE "raise"

Attempt(d, exc, cycle, login) ==
    [date |-> d, outcome |-> exc, cycle |-> cycle, login |-> login]

\* lastUsedDeviceUploadTime values
WatchTimes == {Midnight(d) + 6 * 3600 : d \in SyncDays}

\* One pass of "while repeat_loop" in fetch_write_bulk: daily_fetch_write of
\* current_date and the except clause it ends in.  The pass that finishes
\* the last date returns from fetch_write_bulk: with MANUAL_START_DATE the
\* process exits, in the polling loop last_influxdb_sync_time_UTC becomes
\* last_watch_sync_time_UTC and the loop sleeps UPDATE_INTERVAL_SECONDS.
DailyFetchWrite ==
    /\ pc = "bulk"
    /\ day <= end_date
    /\ Len(attempts) < MaxAttempts
    /\ \E api \in ApiOutcomes, write_ok \in BOOLEAN :
          LET S0  == Store(trainingLoad, sleepSummary, dailyStats, vo2Max,
                           metrics)
              S   == IF api # "" THEN [S0 EXCEPT !.raised = api]
                     ELSE daily_fetch_write(S0,
                              Telemetry(stats, hrVals, acts, weighIns,
                                        wellness, today),
                              day, write_ok)
              h   == Handled(S.raised)
              nxt == IF h \in {"next", "skip"} THEN day + 1 ELSE day
              end == h \in {"next", "skip"} /\ nxt > end_date
          IN  /\ trainingLoad' = S.trainingLoad
              /\ sleepSummary' = S.sleepSummary
              /\ dailyStats' = S.dailyStats
              /\ vo2Max' = S.vo2Max
              /\ metrics' = S.metrics
              /\ attempts' = Append(attempts,
                                    Attempt(day, S.raised, runs, logins))
              /\ ret' = ReturnedLog("daily_fetch_write", <<>>,
                            IF h = "next" THEN << FetchSuccess >>
                            ELSE IF h = "skip" THEN << FetchSkipped >>
                            ELSE <<>>)
              /\ logins' = IF h = "relogin" THEN logins + 1 ELSE logins
              /\ day' = nxt
              /\ pc' = IF h = "raise" THEN "crashed"
                       ELSE IF ~end THEN "bulk"
                       ELSE IF last_influxdb_sync_time_UTC = None THEN "exit"
                       ELSE "poll"
              /\ last_influxdb_sync_time_UTC' =
                    IF end /\ last_influxdb_sync_time_UTC # None
                    THEN last_watch_sync_time_UTC
                    ELSE last_influxdb_sync_time_UTC
              /\ runs' = IF end THEN runs + 1 ELSE runs
              /\ today' = IF end /\ last_influxdb_sync_time_UTC # None
                          THEN today + UPDATE_INTERVAL_SECONDS ELSE today
    /\ UNCHANGED <<stats, hrVals, acts, weighIns, wellness, end_date,
                   last_watch_sync_time_UTC>>

\* One cycle of "while True" up to its first daily_fetch_write: the watch's
\* last upload time is read; when it is later than
\* last_influxdb_sync_time_UTC, fetch_write_bulk starts with the two dates,
\* otherwise the loop sleeps.
PollingLoop ==
    /\ pc = "poll"
    /\ runs < MaxCycles
    /\ \E w \in WatchTimes :
          /\ last_watch_sync_time_UTC # None => w >= last_watch_sync_time_UTC[1]
          /\ last_watch_sync_time_UTC' = Some(w)
          /\ IF last_influxdb_sync_time_UTC[1] < w
             THEN /\ day' = DayOf(last_influxdb_sync_time_UTC[1])
                  /\ end_date' = DayOf(w)
                  /\ pc' = "bulk"
                  /\ UNCHANGED <<runs, today>>
             ELSE /\ runs' = runs + 1
                  /\ today' = today + UPDATE_INTERVAL_SECONDS
                  /\ UNCHANGED <<day, end_date, pc>>
    /\ UNCHANGED <<storeVars, stats, hrVals, acts, weighIns, wellness,
                   last_influxdb_sync_time_UTC, attempts, logins, ret>>

\* after garmin_login(): fetch_write_bulk(MANUAL_START_DATE, MANUAL_END_DATE)
\* entered, or the polling loop with the time of the newest stored
\* HeartRateIntraday point; every date has a resting-level HR series or none
InitSync ==
    /\ runs = 0
    /\ trainingLoad = {}
    /\ sleepSummary = {}
    /\ dailyStats = {}
    /\ vo2Max = {}
    /\ metrics = EmptyMetrics
    /\ stats = HrStats(Some(40), Some(100))
    /\ hrVals \in { <<>>, << <<0, Some(40)>>, <<60000, Some(40)>> >> }
    /\ acts = <<>>
    /\ weighIns = None
    /\ wellness = NoWellness
    /\ today = Midnight(3)
    /\ attempts = <<>>
    /\ logins = 1
    /\ last_watch_sync_time_UTC = None
    /\ ret = NoCall
    /\ \/ /\ last_influxdb_sync_time_UTC = None
          /\ day \in SyncDays
          /\ end_date \in SyncDays
          /\ day <= end_date
          /\ pc = "bulk"
       \/ /\ last_influxdb_sync_time_UTC \in {Some(Midnight(d) + 3600) : d \in {0, 1}}
          /\ day = 0
          /\ end_date = 0
          /\ pc = "poll"

NextSync == DailyFetchWrite \/ PollingLoop

SpecSync == InitSync /\ [][NextSync]_vars

\* the daily_fetch_write call this step made
LastAttempt == attempts'[Len(attempts')]

\* the attempts of the fetch_write_bulk call of the given cycle
AttemptsOf(as, cycle) ==
    LET In(a) == a.cycle = cycle
    IN  SelectSeq(as, In)

C26_SyncAdvancesAfterSuccess ==
    [][ last_influxdb_sync_time_UTC' # last_influxdb_sync_time_UTC =>
          /\ last_influxdb_sync_time_UTC' = last_watch_sync_time_UTC
          /\ \A d \in DayOf(last_influxdb_sync_time_UTC[1])
                      .. DayOf(last_watch_sync_time_UTC[1]) :
                \E i \in DOMAIN attempts' :
                    /\ attempts'[i].date = d
                    /\ attempts'[i].cycle = runs
                    /\ attempts'[i].outcome = "" ]_vars

-----------------------------------------------------------------------------
(* Lactate threshold: the pace string *)

\* C27: pace_lactate_str of get_lactate_threshold is a valid mm:ss rendering
\* of the median pace: its seconds part is in 00..59 for every median pace
\* (a fractional minute that rounds to 60 seconds carries into the minutes).
C27_PaceStringValid ==
    (LactateCall /\ ret.points # <<>>) =>
        LET str == ret.points[1].pace_lactate_str[1]
            med == MedianOf(QualifyingPaces(1))
        IN  /\ str[2] \in 0..59
            /\ 60 * str[1] + str[2] = RoundHalfEven(60 * med.n, med.d)

-----------------------------------------------------------------------------
(* Per-activity VO2: the weight from one activity to the next *)

\* C25: within one get_activity_vo2 call every cycling activity of the date
\* is evaluated with the same resolved body weight, so two cycling activities
\* with equal power get equal vo2_cyc_avg / vo2_cyc_peak values.
C25_SameWeightEveryActivity ==
    (ret.fn = "get_activity_vo2" /\ WeightFor # None) =>
        /\ \A i \in DOMAIN acts :
              (IsCycling(i) /\ acts[i].avgPower # None) =>
                 \E k \in PointsOf(i) :
                    ret.points[k].vo2_cyc_avg =
                       Some(CyclingVo2(acts[i].avgPower[1], WeightFor[1]))
        /\ \A i, j \in DOMAIN acts :
              ( /\ IsCycling(i) /\ IsCycling(j)
                /\ acts[i].avgPower = acts[j].avgPower
                /\ acts[i].maxPower = acts[j].maxPower ) =>
                 \A k \in PointsOf(i), l \in PointsOf(j) :
                    /\ ret.points[k].vo2_cyc_avg = ret.points[l].vo2_cyc_avg
                    /\ ret.points[k].vo2_cyc_peak = ret.points[l].vo2_cyc_peak

-----------------------------------------------------------------------------
(* The daily run: Training Readiness *)

\* the date's run went through daily_fetch_write and its writes were stored
DailySuccess ==
    /\ ret.fn = "fetch_write_bulk"
    /\ Logged(ret, FetchSuccess)
    /\ ~Logged(ret, WriteError)

\* C29: each daily_fetch_write(date) invokes the composite, store-history
\* based Training Readiness scorer (six weighted sub-scores, CTL/ATL/TSB
\* fields, point at the date's UTC midnight) and writes its point, after the
\* date's TRIMP point has been written.
C29_CompositeReadinessWritten ==
    DailySuccess =>
        \E p \in metrics.TrainingReadiness :
            /\ p.time = Midnight(day)
            /\ {"readiness", "CTL", "ATL", "TSB"} \subseteq DOMAIN p

-----------------------------------------------------------------------------
(* HRV baseline: the night that ended on the date *)

\* C30: the HRV baseline for date D is computed from the nightly HRV values
\* recorded on the 28 calendar dates D-27..D, the night that ended on D (its
\* point is at the sleep's end, after D's midnight) included.
C30_HrvWindowIncludesDate ==
    ( /\ ret.fn = "get_hrv_baseline"
      /\ ret.raised = ""
      /\ HrvOn(day, day) # <<>> )
    => LET arr == HrvOn(day - (HrvWindowDays - 1), day)
       IN  /\ Len(arr) >= MinHrvNights => Len(ret.points) = 1
           /\ ret.points # <<>> =>
                 /\ arr[Len(arr)] = HrvOn(day, day)[1]
                 /\ 3 * ret.points[1].trend >= 10 * SeqSum(LastK(arr, 3)) - 2
                 /\ 3 * ret.points[1].trend <= 10 * SeqSum(LastK(arr, 3)) + 2

=============================================================================
